---- MODULE Spec2Model ----
(***************************************************************************)
(* Model of the Solar Forecast datasource (src/src/datasource_proxy.ts):   *)
(* query resolution, the cache and rate gate of DataSource.doRequest, the   *)
(* two provider adapters and the fan-out of DataSource.query.               *)
(*                                                                          *)
(* Execution is single-threaded JavaScript: a doRequest invocation runs     *)
(* without interruption up to its first network await, and again from the   *)
(* arrival of a response to its next await or its end.  Each such segment   *)
(* is one atomic step of the model.  Times are milliseconds, as in the      *)
(* source; the clock advances in steps of TickMs and Date.now() has one     *)
(* value throughout a segment.  A new query() batch is started when the     *)
(* previous one has no call in flight.                                      *)
(*                                                                          *)
(* Specifications: Spec (the datasource under query() batches), LiveSpec    *)
(* (Spec with every issued call answered), TtlSpec (the cache on a          *)
(* one-minute clock), KeySpec (dashboards of two queries, for the cache     *)
(* key), OneKeySpec (dashboards whose queries share one key), PipeSpec (one *)
(* response body through its adapter and formatAsTimeSeries), TestSpec      *)
(* (testDatasource) and TestAmongQueriesSpec (testDatasource among the      *)
(* queries of a dashboard).                                                 *)
(***************************************************************************)
EXTENDS Integers, Sequences, FiniteSets, TLC

VARIABLES
    cfg,          \* instanceSettings: provider, credential flags, locations
    panels,       \* the query descriptors the dashboard's panels send
    now,          \* Date.now()
    cache,        \* DataSource.cache: cache key -> [data, timestamp]
    lastApiCall,  \* DataSource.lastApiCall: provider -> timestamp
    req,          \* the doRequest invocations of the current query() batch
    batch,        \* the Promise.all of the current query() batch
    lastFetchAt,  \* history: provider -> when its latest fetch was issued
    pipe,         \* one response on its way from body to data frame
    test          \* the testDatasource() invocation

vars ==
    <<cfg, panels, now, cache, lastApiCall, req, batch, lastFetchAt, pipe, test>>

-----------------------------------------------------------------------------
(* Bounds of the model *)

\* Number of clock ticks explored after start-up.
MaxTicks == 2

\* Largest number of targets in one query() batch.
MaxTargets == 2

\* Largest number of entries in a metric map or a forecasts array.
MaxPoints == 2

\* Minutes explored after start-up in the minute-by-minute run of the cache.
MaxMinutes == 31

\* Date.now() when the datasource instance is constructed (any value well
\* past the epoch; the real clock is about 1.7e12).
StartTime == 24 * 60 * 60 * 1000

-----------------------------------------------------------------------------
(* JavaScript values *)

\* `undefined` for an optional string field.
Undefined == "undefined"

\* `undefined` for an optional numeric field.
UndefNum == -9999

\* Truthiness of a string-or-undefined value (x && ..., !x).
Truthy(x) == x # Undefined /\ x # ""

\* x || d on a string-or-undefined value.
OrDefault(x, d) == IF Truthy(x) THEN x ELSE d

\* x || d on a number-or-undefined value: undefined and 0 are both falsy.
OrDefaultNum(x, d) == IF x = UndefNum \/ x = 0 THEN d ELSE x

-----------------------------------------------------------------------------
(* Program constants *)

CACHE_TTL == 30 * 60 * 1000

MIN_CACHE_TTL == 10 * 60 * 1000

Max(a, b) == IF a >= b THEN a ELSE b

\* Inline-parameter fallbacks (latitude/longitude in hundredths of a degree,
\* kwp in tenths of a kWp).
DefaultLatitude == 5113

DefaultLongitude == 1042

DefaultDeclination == 30

DefaultAzimuth == 180

DefaultKwp == 50

-----------------------------------------------------------------------------
(* Configuration and inputs *)

\* The configured locations (jsonData.locations): one location, "loc1".
Locations ==
    { [id |-> "loc1", latitude |-> 4814, longitude |-> 1158,
       declination |-> 35, azimuth |-> 170, kwp |-> 82] }

\* A query with every optional field left out, except the Solcast site.
BaseQuery ==
    [ refId |-> "A", locationId |-> Undefined, useCustomLocation |-> FALSE,
      latitude |-> UndefNum, longitude |-> UndefNum, declination |-> UndefNum,
      azimuth |-> UndefNum, kwp |-> UndefNum,
      solcastSiteId |-> "site1", dataType |-> Undefined, metric |-> Undefined,
      startDate |-> Undefined, endDate |-> Undefined,
      forecastPeriod |-> Undefined ]

\* Dashboards: the sets of query descriptors the panels of one dashboard send.
\* Two metrics of one site (two cache keys, two TTLs on forecast.solar).
MetricPanels ==
    { BaseQuery, [BaseQuery EXCEPT !.metric = "watt_hours_day"] }

\* A configured location, an unknown location id, and the unknown id with the
\* ad-hoc override (which resolves to the same parameters as BaseQuery).
LocationPanels ==
    { [BaseQuery EXCEPT !.locationId = "loc1"],
      [BaseQuery EXCEPT !.locationId = "locX"],
      [BaseQuery EXCEPT !.locationId = "locX", !.useCustomLocation = TRUE] }

\* A forecast, a history of an energy metric, a history of a power metric.
HistoryPanels ==
    { BaseQuery,
      [BaseQuery EXCEPT !.dataType = "historical", !.metric = "history_watthours"],
      [BaseQuery EXCEPT !.dataType = "historical"] }

\* Solcast site given, left out, and empty.
SitePanels ==
    { BaseQuery,
      [BaseQuery EXCEPT !.metric = "watt_hours_day"],
      [BaseQuery EXCEPT !.solcastSiteId = Undefined],
      [BaseQuery EXCEPT !.solcastSiteId = ""] }

\* Inline parameters: every one supplied as 0 (a site on the equator and the
\* prime meridian, a flat panel, azimuth 0, no peak power), and a latitude
\* supplied with another value than the fallback.
InlinePanels ==
    { [BaseQuery EXCEPT !.latitude = 0, !.longitude = 0, !.declination = 0,
                        !.azimuth = 0, !.kwp = 0],
      [BaseQuery EXCEPT !.latitude = 4814] }

\* The credential flags a datasource can be saved with: none, the secure
\* apiKey field, or only the jsonData.hasApiKey flag.
NoCredential == [secureApiKey |-> FALSE, hasApiKeyFlag |-> FALSE]

SecureKey == [secureApiKey |-> TRUE, hasApiKeyFlag |-> FALSE]

FlagOnly == [secureApiKey |-> FALSE, hasApiKeyFlag |-> TRUE]

\* The installations explored: provider, credential flags, dashboard.
Deployments ==
    { <<"forecast.solar", NoCredential, d>> :
          d \in {MetricPanels, LocationPanels, HistoryPanels} }
    \cup { <<"forecast.solar", SecureKey, d>> :
             d \in {MetricPanels, HistoryPanels, InlinePanels} }
    \cup { <<"forecast.solar", FlagOnly, HistoryPanels>> }
    \cup { <<"solcast", c, SitePanels>> :
             c \in {NoCredential, SecureKey, FlagOnly} }

\* What getBackendSrv().get(url) can do: resolve with a well-formed body,
\* resolve with a body that has no result / forecasts member, or reject.
ResponseKinds == {"ok", "noresult", "reject"}

-----------------------------------------------------------------------------
(* Pure helpers of DataSource *)

\* jsonData.provider || 'forecast.solar'
getProvider == OrDefault(cfg.provider, "forecast.solar")

\* Result of locations.find(loc => loc.id === id): the set of matches.
FindLocation(id) == { loc \in cfg.locations : loc.id = id }

\* The location branch of doRequest is taken.
UsesPredefinedLocation(q) == Truthy(q.locationId) /\ ~q.useCustomLocation

\* doRequest throws "Location with ID ... not found".
LocationNotFound(q) ==
    UsesPredefinedLocation(q) /\ FindLocation(q.locationId) = {}

\* The resolved (latitude, longitude, declination, azimuth, kwp).
ResolveLocation(q) ==
    IF UsesPredefinedLocation(q)
    THEN LET loc == CHOOSE l \in FindLocation(q.locationId) : TRUE
         IN  [latitude |-> loc.latitude, longitude |-> loc.longitude,
              declination |-> loc.declination, azimuth |-> loc.azimuth,
              kwp |-> loc.kwp]
    ELSE [latitude |-> OrDefaultNum(q.latitude, DefaultLatitude),
          longitude |-> OrDefaultNum(q.longitude, DefaultLongitude),
          declination |-> OrDefaultNum(q.declination, DefaultDeclination),
          azimuth |-> OrDefaultNum(q.azimuth, DefaultAzimuth),
          kwp |-> OrDefaultNum(q.kwp, DefaultKwp)]

QueryDataType(q) == OrDefault(q.dataType, "forecast")

QueryMetric(q) == OrDefault(q.metric, "watts")

\* Texts.  A text is handled as the sequence of its pieces between dashes, so
\* that joining texts with '-' is the concatenation of their pieces and two
\* joined texts are the same string exactly when their pieces are the same.
\* The texts of the model that contain a dash are listed here; every other
\* one is a single piece.
Pieces(text) ==
    CASE text = "a1b2-c3d4" -> << "a1b2", "c3d4" >>
      [] text = "c3d4-forecast" -> << "c3d4", "forecast" >>
      [] text = "test-site-id" -> << "test", "site", "id" >>
      [] text = "2025-07-01" -> << "2025", "07", "01" >>
      [] text = "2025-07-02" -> << "2025", "07", "02" >>
      [] OTHER -> << text >>

\* `${x}` of a string-or-undefined value (undefined reads 'undefined').
TextOf(x) == Pieces(x)

\* `${n}` of a number-or-undefined value; a negative number starts with '-'.
TextOfNum(n) ==
    IF n = UndefNum THEN << "undefined" >>
    ELSE IF n < 0 THEN << "", ToString(-n) >>
    ELSE << ToString(n) >>

\* The template string of getCacheKey: its twelve parts joined with '-'.
getCacheKey(provider, latitude, longitude, declination, azimuth, kwp, solcastSiteId, dataType, metric, startDate, endDate, forecastPeriod) ==
    TextOf(provider) \o TextOfNum(latitude) \o TextOfNum(longitude)
    \o TextOfNum(declination) \o TextOfNum(azimuth) \o TextOfNum(kwp)
    \o TextOf(solcastSiteId) \o TextOf(dataType) \o TextOf(metric)
    \o TextOf(startDate) \o TextOf(endDate) \o TextOf(forecastPeriod)

\* The cache key doRequest computes for a query whose location resolves.
CacheKeyOf(q) ==
    LET loc == ResolveLocation(q)
    IN  getCacheKey(getProvider, loc.latitude, loc.longitude, loc.declination,
                    loc.azimuth, loc.kwp, q.solcastSiteId, QueryDataType(q),
                    QueryMetric(q), q.startDate, q.endDate, q.forecastPeriod)

\* Mutant of getEffectiveCacheTTL: the daily metric is tested under its
\* legacy name, so 'watt_hours_day' gets the short TTL.
getEffectiveCacheTTL_LegacyName(provider, metric) ==
    IF provider = "solcast" THEN CACHE_TTL
    ELSE IF metric = "watthours_day" THEN CACHE_TTL
    ELSE Max(MIN_CACHE_TTL, CACHE_TTL \div 3)

\* Mutant of getEffectiveCacheTTL: the division by 3 is left out, so every
\* forecast.solar metric gets CACHE_TTL.
getEffectiveCacheTTL_Undivided(provider, metric) ==
    IF provider = "solcast" THEN CACHE_TTL
    ELSE IF metric = "watt_hours_day" THEN CACHE_TTL
    ELSE Max(MIN_CACHE_TTL, CACHE_TTL)

getEffectiveCacheTTL(provider, metric) ==
    IF provider = "solcast" THEN CACHE_TTL
    ELSE IF metric = "watt_hours_day" THEN CACHE_TTL
    ELSE Max(MIN_CACHE_TTL, CACHE_TTL \div 3)

\* Mutant of minIntervalBetweenCalls: one hour for every provider, longer
\* than every TTL.
minIntervalBetweenCalls_Hour(provider) == 60 * 60 * 1000

minIntervalBetweenCalls(provider) ==
    IF provider = "solcast" THEN 30 * 60 * 1000 ELSE 5 * 60 * 1000

\* this.lastApiCall.get(provider) || 0
LastCall(provider) ==
    IF provider \in DOMAIN lastApiCall THEN lastApiCall[provider] ELSE 0

\* hasApiKeyInSecureFields || hasApiKeyFlag in fetchForecastSolarDataViaProxy
hasApiKey == cfg.secureApiKey \/ cfg.hasApiKeyFlag

\* Granularity of the model clock: the provider's minimum call interval,
\* which divides each of its TTLs (5 and 30 minutes).
TickMs == IF getProvider = "solcast" THEN 30 * 60 * 1000 ELSE 5 * 60 * 1000

MaxTime == StartTime + MaxTicks * TickMs

\* The body the provider answers with: its forecast changes with time, so a
\* body is identified by the instant it was served.
ProviderBody == now

mapMetricToKey(metric) ==
    CASE metric = "watt_hours" -> "watthours"
      [] metric = "watt_hours_day" -> "watthours_day"
      [] OTHER -> metric

-----------------------------------------------------------------------------
(* Canonical results *)

\* processForecastSolarData on a well-formed /estimate body: the four
\* forecast metric maps, copied.
ForecastResult(p) ==
    [metrics |-> {"watts", "watt_hours_period", "watt_hours", "watt_hours_day"},
     ver |-> p]

\* processForecastSolarData on a history body: the series under three keys.
HistoricalResult(metric, p) ==
    [metrics |-> {mapMetricToKey(metric), "history_watthours", "watthours"},
     ver |-> p]

\* The result object when the body carries no series (result = {}, or
\* watts = {} for Solcast).
EmptyResult(keys) == [metrics |-> keys, ver |-> 0]

\* fetchSolcastData's result: only watts.
SolcastResult(p) == [metrics |-> {"watts"}, ver |-> p]

\* No canonical result (the request failed or has not finished).
NoData == [metrics |-> {}, ver |-> 0]

-----------------------------------------------------------------------------
(* doRequest invocations *)

Slots == 1..MaxTargets

\* A doRequest invocation: its query, where it stands (pc), how it ended
\* (via: hit, stale, fetch or error), the error it threw, the canonical
\* result it formats, the proxy routes it has called and the kinds of
\* response those calls got.
UnusedReq ==
    [q |-> BaseQuery, pc |-> "unused", via |-> "none", err |-> "none",
     data |-> NoData, calls |-> <<>>, got |-> <<>>]

\* doRequest rejected with error e.
Failed(q, e, calls, got) ==
    [q |-> q, pc |-> "done", via |-> "error", err |-> e,
     data |-> NoData, calls |-> calls, got |-> got]

\* doRequest fulfilled with the frame built from allData.
Served(q, via, allData, calls, got) ==
    [q |-> q, pc |-> "done", via |-> via, err |-> "none",
     data |-> allData, calls |-> calls, got |-> got]

\* doRequest suspended at `await getBackendSrv().get(...)`.
Awaiting(q, pc, calls, got) ==
    [q |-> q, pc |-> pc, via |-> "none", err |-> "none",
     data |-> NoData, calls |-> calls, got |-> got]

\* cached && cacheAge < effectiveTTL
IsCacheHit(q) ==
    LET key == CacheKeyOf(q)
    IN  /\ key \in DOMAIN cache
        /\ now - cache[key].timestamp
             < getEffectiveCacheTTL(getProvider, QueryMetric(q))

\* Mutant of IsRateLimited: the gate still holds when exactly the minimum
\* interval has elapsed (<= for <).
IsRateLimited_Inclusive(q) ==
    /\ now - LastCall(getProvider) <= minIntervalBetweenCalls(getProvider)
    /\ CacheKeyOf(q) \in DOMAIN cache

\* timeSinceLastCall < minIntervalBetweenCalls && cached
IsRateLimited(q) ==
    /\ now - LastCall(getProvider) < minIntervalBetweenCalls(getProvider)
    /\ CacheKeyOf(q) \in DOMAIN cache

\* Mutant of SolcastStart: the site id is checked before the credential.
SolcastStart_SiteFirst(q) ==
    IF ~Truthy(q.solcastSiteId) THEN Failed(q, "NoSiteId", <<>>, <<>>)
    ELSE IF ~cfg.secureApiKey THEN Failed(q, "NoSolcastKey", <<>>, <<>>)
    ELSE Awaiting(q, "awaitSolcast", <<"solcast">>, <<>>)

\* fetchSolcastData up to its await.
SolcastStart(q) ==
    IF ~cfg.secureApiKey THEN Failed(q, "NoSolcastKey", <<>>, <<>>)
    ELSE IF ~Truthy(q.solcastSiteId) THEN Failed(q, "NoSiteId", <<>>, <<>>)
    ELSE Awaiting(q, "awaitSolcast", <<"solcast">>, <<>>)

\* The tier route fetchForecastSolarDataViaProxy starts with.
RoutePath(dataType) ==
    IF dataType = "historical" \/ hasApiKey
    THEN "forecast-solar-paid" ELSE "forecast-solar-free"

\* Mutant of ForecastSolarStart: the credential check for historical data is
\* left out, so the paid route is tried without a key.
ForecastSolarStart_NoKeyCheck(q) ==
    LET dataType == QueryDataType(q)
        metric == QueryMetric(q)
    IN  IF dataType = "historical"
           /\ metric \notin {"history_watthours", "watthours"}
        THEN Failed(q, "HistoricalMetric", <<>>, <<>>)
        ELSE Awaiting(q, "awaitFirst", <<RoutePath(dataType)>>, <<>>)

\* fetchForecastSolarDataViaProxy up to its first await.
ForecastSolarStart(q) ==
    LET dataType == QueryDataType(q)
        metric == QueryMetric(q)
    IN  IF dataType = "historical" /\ ~hasApiKey
        THEN Failed(q, "HistoricalNeedsKey", <<>>, <<>>)
        ELSE IF dataType = "historical"
                /\ metric \notin {"history_watthours", "watthours"}
        THEN Failed(q, "HistoricalMetric", <<>>, <<>>)
        ELSE Awaiting(q, "awaitFirst", <<RoutePath(dataType)>>, <<>>)

\* The fetch branch of doRequest up to its await.
FetchStart(q) ==
    IF getProvider = "solcast" THEN SolcastStart(q) ELSE ForecastSolarStart(q)

\* Mutant of DoRequestStart: the cache is consulted, under the key of the
\* inline parameters, before the location id is looked up.
DoRequestStart_CacheFirst(q) ==
    LET adhoc == [q EXCEPT !.useCustomLocation = TRUE]
    IN  IF IsCacheHit(adhoc)
        THEN Served(q, "hit", cache[CacheKeyOf(adhoc)].data, <<>>, <<>>)
        ELSE IF LocationNotFound(q) THEN Failed(q, "NotFound", <<>>, <<>>)
        ELSE IF IsRateLimited(q)
        THEN Served(q, "stale", cache[CacheKeyOf(q)].data, <<>>, <<>>)
        ELSE FetchStart(q)

\* doRequest from its call to its first await or its end.
DoRequestStart(q) ==
    IF LocationNotFound(q) THEN Failed(q, "NotFound", <<>>, <<>>)
    ELSE IF IsCacheHit(q)
    THEN Served(q, "hit", cache[CacheKeyOf(q)].data, <<>>, <<>>)
    ELSE IF IsRateLimited(q)
    THEN Served(q, "stale", cache[CacheKeyOf(q)].data, <<>>, <<>>)
    ELSE FetchStart(q)

\* Mutant of LastApiCallAfterFetch: the time the call was issued is recorded
\* instead of the time it completed.
LastApiCallAfterFetch_IssueTime ==
    [p \in DOMAIN lastApiCall \cup {getProvider} |->
        IF p = getProvider THEN lastFetchAt[getProvider] ELSE lastApiCall[p]]

\* lastApiCall.set(provider, Date.now())
LastApiCallAfterFetch == 
    [p \in DOMAIN lastApiCall \cup {getProvider} |->
        IF p = getProvider THEN now ELSE lastApiCall[p]]

\* Mutant of CacheAfterFetch: an entry already stored for the key is kept
\* (the first fetch to complete wins).
CacheAfterFetch_KeepsFirst(key, allData) ==
    [k \in DOMAIN cache \cup {key} |->
        IF k \in DOMAIN cache THEN cache[k]
        ELSE [data |-> allData, timestamp |-> now]]

\* Mutant of CacheAfterFetch: the map is emptied before the new entry is
\* stored, so every other entry is evicted.
CacheAfterFetch_Evicts(key, allData) ==
    [k \in {key} |-> [data |-> allData, timestamp |-> now]]

\* cache.set(cacheKey, {data, timestamp: Date.now()})
CacheAfterFetch(key, allData) ==
    [k \in DOMAIN cache \cup {key} |->
        IF k = key THEN [data |-> allData, timestamp |-> now] ELSE cache[k]]

\* The error a failed call of kind `kind` raises: the rejection of get(), or
\* processForecastSolarData's "Invalid forecast data structure".
CallError(kind) == IF kind = "reject" THEN "Upstream" ELSE "InvalidStructure"

\* Mutant of AfterResponse: the free tier is retried after any failed first
\* call, also when no credential is configured.
AfterResponse_FallbackWithoutKey(r, kind, p) ==
    LET q == r.q
        dataType == QueryDataType(q)
        metric == QueryMetric(q)
        got == Append(r.got, kind)
    IN  CASE r.pc = "awaitSolcast" ->
               IF kind = "reject" THEN Failed(q, "Upstream", r.calls, got)
               ELSE IF kind = "noresult"
               THEN Served(q, "fetch", EmptyResult({"watts"}), r.calls, got)
               ELSE Served(q, "fetch", SolcastResult(p), r.calls, got)
          [] r.pc = "awaitFirst" /\ dataType = "historical" ->
               IF kind = "reject"
               THEN Failed(q, "HistoricalFailed", r.calls, got)
               ELSE IF kind = "noresult"
               THEN Served(q, "fetch", EmptyResult({}), r.calls, got)
               ELSE Served(q, "fetch", HistoricalResult(metric, p), r.calls, got)
          [] r.pc = "awaitFirst" /\ dataType # "historical" ->
               IF kind = "ok"
               THEN Served(q, "fetch", ForecastResult(p), r.calls, got)
               ELSE IF TRUE
               THEN Awaiting(q, "awaitFallback",
                             Append(r.calls, "forecast-solar-free"), got)
               ELSE Failed(q, CallError(kind), r.calls, got)
          [] r.pc = "awaitFallback" ->
               IF kind = "ok"
               THEN Served(q, "fetch", ForecastResult(p), r.calls, got)
               ELSE Failed(q, CallError(kind), r.calls, got)

\* Mutant of AfterResponse: a failed historical call falls back to the free
\* tier like a forecast call.
AfterResponse_HistoricalFallback(r, kind, p) ==
    LET q == r.q
        dataType == QueryDataType(q)
        metric == QueryMetric(q)
        got == Append(r.got, kind)
    IN  CASE r.pc = "awaitSolcast" ->
               IF kind = "reject" THEN Failed(q, "Upstream", r.calls, got)
               ELSE IF kind = "noresult"
               THEN Served(q, "fetch", EmptyResult({"watts"}), r.calls, got)
               ELSE Served(q, "fetch", SolcastResult(p), r.calls, got)
          [] r.pc = "awaitFirst" /\ dataType = "historical" ->
               IF kind = "reject" /\ hasApiKey
               THEN Awaiting(q, "awaitFallback",
                             Append(r.calls, "forecast-solar-free"), got)
               ELSE IF kind = "reject"
               THEN Failed(q, "HistoricalFailed", r.calls, got)
               ELSE IF kind = "noresult"
               THEN Served(q, "fetch", EmptyResult({}), r.calls, got)
               ELSE Served(q, "fetch", HistoricalResult(metric, p), r.calls, got)
          [] r.pc = "awaitFirst" /\ dataType # "historical" ->
               IF kind = "ok"
               THEN Served(q, "fetch", ForecastResult(p), r.calls, got)
               ELSE IF hasApiKey /\ r.calls[1] = "forecast-solar-paid"
               THEN Awaiting(q, "awaitFallback",
                             Append(r.calls, "forecast-solar-free"), got)
               ELSE Failed(q, CallError(kind), r.calls, got)
          [] r.pc = "awaitFallback" ->
               IF kind = "ok"
               THEN Served(q, "fetch", ForecastResult(p), r.calls, got)
               ELSE Failed(q, CallError(kind), r.calls, got)

\* The slot after a response of kind `kind` with body p arrived: the rest of
\* the adapter (processing, tier fallback) up to its next await or its end.
AfterResponse(r, kind, p) ==
    LET q == r.q
        dataType == QueryDataType(q)
        metric == QueryMetric(q)
        got == Append(r.got, kind)
    IN  CASE r.pc = "awaitSolcast" ->
               IF kind = "reject" THEN Failed(q, "Upstream", r.calls, got)
               ELSE IF kind = "noresult"
               THEN Served(q, "fetch", EmptyResult({"watts"}), r.calls, got)
               ELSE Served(q, "fetch", SolcastResult(p), r.calls, got)
          [] r.pc = "awaitFirst" /\ dataType = "historical" ->
               IF kind = "reject"
               THEN Failed(q, "HistoricalFailed", r.calls, got)
               ELSE IF kind = "noresult"
               THEN Served(q, "fetch", EmptyResult({}), r.calls, got)
               ELSE Served(q, "fetch", HistoricalResult(metric, p), r.calls, got)
          [] r.pc = "awaitFirst" /\ dataType # "historical" ->
               IF kind = "ok"
               THEN Served(q, "fetch", ForecastResult(p), r.calls, got)
               ELSE IF hasApiKey /\ r.calls[1] = "forecast-solar-paid"
               THEN Awaiting(q, "awaitFallback",
                             Append(r.calls, "forecast-solar-free"), got)
               ELSE Failed(q, CallError(kind), r.calls, got)
          [] r.pc = "awaitFallback" ->
               IF kind = "ok"
               THEN Served(q, "fetch", ForecastResult(p), r.calls, got)
               ELSE Failed(q, CallError(kind), r.calls, got)

-----------------------------------------------------------------------------
(* query(): Promise.all over the targets *)

Pending(r) == r.pc \in {"awaitSolcast", "awaitFirst", "awaitFallback"}

\* The promise query() returns: its status, the error it rejected with, the
\* target that rejected it, and the targets whose frames it delivers.
NoBatch == [status |-> "none", err |-> "none", by |-> 0, frames |-> {}]

Targets(rs) == { i \in Slots : rs[i].pc # "unused" }

\* Promise.all right after the targets were mapped: rejected by the first
\* target that already failed, fulfilled when none is pending.
BatchAtStart(rs) ==
    LET failed == { i \in Slots : rs[i].via = "error" }
    IN  IF failed # {}
        THEN LET i == CHOOSE j \in failed : \A k \in failed : j <= k
             IN  [status |-> "rejected", err |-> rs[i].err, by |-> i,
                  frames |-> {}]
        ELSE IF \E i \in Slots : Pending(rs[i])
        THEN [status |-> "pending", err |-> "none", by |-> 0, frames |-> {}]
        ELSE [status |-> "resolved", err |-> "none", by |-> 0,
              frames |-> Targets(rs)]

\* Mutant of BatchAfter: the promise waits for every target before it
\* rejects (Promise.allSettled followed by a check).
BatchAfter_WaitsForAll(b, rs, i) ==
    IF b.status # "pending" THEN b
    ELSE IF \E j \in Slots : Pending(rs[j]) THEN b
    ELSE IF \E j \in Slots : rs[j].via = "error"
    THEN [status |-> "rejected", err |-> rs[i].err, by |-> i, frames |-> {}]
    ELSE [status |-> "resolved", err |-> "none", by |-> 0,
          frames |-> Targets(rs)]

\* Promise.all after target i settled as rs[i]: it settles once.
BatchAfter(b, rs, i) ==
    IF b.status # "pending" THEN b
    ELSE IF rs[i].via = "error"
    THEN [status |-> "rejected", err |-> rs[i].err, by |-> i, frames |-> {}]
    ELSE IF \E j \in Slots : Pending(rs[j]) THEN b
    ELSE [status |-> "resolved", err |-> "none", by |-> 0,
          frames |-> Targets(rs)]

-----------------------------------------------------------------------------
(* Dates and timestamps *)

\* A JavaScript number that may be NaN.
NaN == [nan |-> TRUE, v |-> 0]

Num(v) == [nan |-> FALSE, v |-> v]

isNaN(n) == n.nan

MsPerDay == 24 * 60 * 60 * 1000

\* The strings that occur as timestamps, by their form:
\*   datetime  "1970-01-02 10:00:00"   wall-clock time, no zone (t: wall ms)
\*   date      "1970-01-02"            a calendar day (t: ms of its midnight)
\*   instant   "1970-01-02T10:00:00Z"  ISO 8601 with zone Z (t: UTC ms)
\*   digits    "86400"                 a decimal integer (t: the integer)
\*   text      "NaN", "watts", ...     anything else
DateTimeKey(t) == [form |-> "datetime", t |-> t]

DateKey(t) == [form |-> "date", t |-> t]

InstantKey(t) == [form |-> "instant", t |-> t]

DigitsKey(n) == [form |-> "digits", t |-> n]

TextKey == [form |-> "text", t |-> 0]

\* new Date(string).getTime() in a process whose local time is UTC + zone:
\* a date-time without zone is local time, a date alone is UTC midnight, an
\* integer of more than six digits is no year the Date range holds, and other
\* text is no date.
DateParse(key, zone) ==
    CASE key.form = "datetime" -> Num(key.t - zone)
      [] key.form = "date" -> Num(key.t)
      [] key.form = "instant" -> Num(key.t)
      [] OTHER -> NaN

\* parseTimestamp: 0 for a string that does not parse.
parseTimestamp(timestamp, zone) ==
    LET parsed == DateParse(timestamp, zone)
    IN  IF isNaN(parsed) THEN Num(0) ELSE parsed

\* The day offset getTargetDateFromPeriod adds to today's date.
PeriodOffset(forecastPeriod) ==
    CASE forecastPeriod = "tomorrow" -> 1
      [] forecastPeriod = "day+2" -> 2
      [] forecastPeriod = "day+3" -> 3
      [] forecastPeriod = "day+4" -> 4
      [] forecastPeriod = "day+5" -> 5
      [] forecastPeriod = "day+6" -> 6
      [] OTHER -> 0

\* getTargetDateFromPeriod: now, with the local date moved on by the offset.
getTargetDateFromPeriod(forecastPeriod, today) ==
    today + PeriodOffset(forecastPeriod) * MsPerDay

\* Mutant of StartOfDay: the day is cut at UTC midnight, not local midnight.
StartOfDay_UTC(date, zone) == (date \div MsPerDay) * MsPerDay

\* date.setHours(0, 0, 0, 0): the start of date's local day.
StartOfDay(date, zone) == ((date + zone) \div MsPerDay) * MsPerDay - zone

\* date.setHours(23, 59, 59, 999): the last millisecond of date's local day.
EndOfDay(date, zone) == StartOfDay(date, zone) + MsPerDay - 1

\* timeFilter of formatAsTimeSeries.
timeFilter(forecastPeriod, timestamp, today, zone) ==
    IF forecastPeriod = "all" THEN TRUE
    ELSE LET targetDate == getTargetDateFromPeriod(forecastPeriod, today)
             ts == parseTimestamp(timestamp, zone)
         IN  /\ ~isNaN(ts)
             /\ ts.v >= StartOfDay(targetDate, zone)
             /\ ts.v <= EndOfDay(targetDate, zone)

-----------------------------------------------------------------------------
(* Canonical results in full, and formatAsTimeSeries *)

\* A property value: a number, or an object (the map of a metric).
NumberValue(n) == [type |-> "number", n |-> n]

ObjectValue == [type |-> "object", n |-> 0]

\* An object is the sequence of its properties, in Object.entries order.  A
\* metric map has timestamp keys and number values; a canonical result has
\* the metric names as keys and the metric maps as values.
Entry(key, value) == [key |-> key, value |-> value]

Member(name, map) == [name |-> name, map |-> map]

HasMember(object, name) == \E n \in 1..Len(object) : object[n].name = name

GetMember(object, name) ==
    object[CHOOSE n \in 1..Len(object) : object[n].name = name].map

\* Object.entries(allData), read the way formatAsTimeSeries reads the
\* entries of a metric map: the property name is the timestamp string (a
\* metric name is text), the property value is the value.
EntriesOfResult(allData) ==
    [n \in 1..Len(allData) |-> Entry(TextKey, ObjectValue)]

\* allData[metric] || allData (an object, even an empty one, is truthy).
SelectedData(allData, metric) ==
    IF HasMember(allData, metric) THEN GetMember(allData, metric)
    ELSE EntriesOfResult(allData)

\* a sorts before b under the comparator parseTimestamp(a) - parseTimestamp(b).
SortsBefore(a, b, zone) ==
    LET ta == parseTimestamp(a.key, zone)
        tb == parseTimestamp(b.key, zone)
    IN  ~isNaN(ta) /\ ~isNaN(tb) /\ ta.v < tb.v

\* e put into the sorted sequence s, behind the entries it does not sort
\* before (Array.prototype.sort is stable).
RECURSIVE InsertSorted(_, _, _)
InsertSorted(s, e, zone) ==
    IF s = << >> THEN << e >>
    ELSE IF SortsBefore(e, s[1], zone) THEN << e >> \o s
    ELSE << s[1] >> \o InsertSorted(Tail(s), e, zone)

\* entries.sort(([a], [b]) => parseTimestamp(a) - parseTimestamp(b))
RECURSIVE SortEntries(_, _)
SortEntries(s, zone) ==
    IF s = << >> THEN << >>
    ELSE InsertSorted(SortEntries(SubSeq(s, 1, Len(s) - 1), zone),
                      s[Len(s)], zone)

\* The forEach of formatAsTimeSeries: a point per entry, none for an entry
\* whose time value is NaN.
RECURSIVE AddPoints(_, _)
AddPoints(s, zone) ==
    IF s = << >> THEN << >>
    ELSE LET timeValue == parseTimestamp(s[1].key, zone)
         IN  IF isNaN(timeValue) THEN AddPoints(Tail(s), zone)
             ELSE << [Time |-> timeValue.v, Value |-> s[1].value] >>
                    \o AddPoints(Tail(s), zone)

\* Mutant of formatAsTimeSeries: the entries are emitted in stored order
\* (the sort is left out).
formatAsTimeSeries_Unsorted(allData, query, today, zone) ==
    LET metric == OrDefault(query.metric, "watts")
        forecastPeriod == OrDefault(query.forecastPeriod, "all")
        selectedData == SelectedData(allData, metric)
        Keep(e) == timeFilter(forecastPeriod, e.key, today, zone)
    IN  AddPoints(SelectSeq(selectedData, Keep), zone)

\* formatAsTimeSeries: the points of the frame, as (Time, Value) rows.
formatAsTimeSeries(allData, query, today, zone) ==
    LET metric == OrDefault(query.metric, "watts")
        forecastPeriod == OrDefault(query.forecastPeriod, "all")
        selectedData == SelectedData(allData, metric)
        Keep(e) == timeFilter(forecastPeriod, e.key, today, zone)
    IN  AddPoints(SortEntries(SelectSeq(selectedData, Keep), zone), zone)

-----------------------------------------------------------------------------
(* The adapters' normalisation of a response body *)

\* map[key] = value on an object kept as its entry sequence: a new key is
\* appended, an existing key keeps its place and takes the value.
SetEntry(map, key, value) ==
    IF \E n \in 1..Len(map) : map[n].key = key
    THEN [n \in 1..Len(map) |->
             IF map[n].key = key THEN Entry(key, value) ELSE map[n]]
    ELSE Append(map, Entry(key, value))

\* result[metricKey] = {}; Object.entries(sourceData).forEach(... = value)
RECURSIVE CopyEntries(_, _)
CopyEntries(into, sourceData) ==
    IF sourceData = << >> THEN into
    ELSE CopyEntries(SetEntry(into, sourceData[1].key, sourceData[1].value),
                     Tail(sourceData))

\* The metrics processForecastSolarData looks for in data.result, in order.
availableMetrics == <<"watts", "watt_hours_period", "watt_hours", "watt_hours_day">>

\* processForecastSolarData, forecast branch, on a body with a result object:
\* each available metric the result holds, copied entry by entry.
RECURSIVE CopyMetrics(_, _)
CopyMetrics(result, names) ==
    IF names = << >> THEN << >>
    ELSE IF HasMember(result, names[1])
    THEN << Member(names[1], CopyEntries(<< >>, GetMember(result, names[1]))) >>
           \o CopyMetrics(result, Tail(names))
    ELSE CopyMetrics(result, Tail(names))

processForecastSolarData(data) == CopyMetrics(data.result, availableMetrics)

\* Math.round(pv_estimate * 1000), with pv_estimate given in tenths of a
\* watt: floor(x + 0.5).
RoundWatts(tenths) == (tenths + 5) \div 10

\* Mutant of SolcastKey: the 30 minutes are not subtracted.
SolcastKey_PeriodEnd(period_end, zone) ==
    LET periodEnd == DateParse(period_end, zone)
    IN  IF isNaN(periodEnd) THEN TextKey
        ELSE DigitsKey(periodEnd.v \div 1000)

\* (Math.floor(new Date(period_end).getTime() / 1000) - 1800).toString():
\* the digits of a number of seconds, or "NaN".
SolcastKey(period_end, zone) ==
    LET periodEnd == DateParse(period_end, zone)
    IN  IF isNaN(periodEnd) THEN TextKey
        ELSE DigitsKey(periodEnd.v \div 1000 - 1800)

\* data.forecasts?.forEach(forecast => result.watts[timestamp] = watts)
RECURSIVE SolcastWatts(_, _, _)
SolcastWatts(watts, forecasts, zone) ==
    IF forecasts = << >> THEN watts
    ELSE SolcastWatts(
             SetEntry(watts, SolcastKey(forecasts[1].period_end, zone),
                      NumberValue(RoundWatts(forecasts[1].pv_estimate))),
             Tail(forecasts), zone)

\* The result object of fetchSolcastData for the body `data`.
SolcastCanonical(data, zone) ==
    << Member("watts",
              IF data.hasForecasts THEN SolcastWatts(<< >>, data.forecasts, zone)
              ELSE << >>) >>

-----------------------------------------------------------------------------
(* One response on its way through an adapter and formatAsTimeSeries *)

\* The sequences of at most n distinct elements of S.
Arrangements(S, n) ==
    { s \in UNION { [1..k -> S] : k \in 0..n } :
        \A i, j \in 1..Len(s) : i # j => s[i] # s[j] }

Hour == 60 * 60 * 1000

\* The local time zones explored, as offsets from UTC.
Zones == { -5 * Hour, 0, 2 * Hour }

\* Date.now() when the frame is built: early and late on the fourth UTC day
\* after the epoch (the local date is the day before, or after, in some zone).
Todays == { 3 * MsPerDay + Hour \div 2, 3 * MsPerDay + 23 * Hour + Hour \div 2 }

\* Entries of a forecast.solar metric map: wall-clock keys at both ends of a
\* day, on the days around it and six days on, a date without time, and a
\* key that is no date.
ForecastEntries ==
    { Entry(DateTimeKey(3 * MsPerDay), NumberValue(100)),
      Entry(DateTimeKey(4 * MsPerDay - 1000), NumberValue(200)),
      Entry(DateTimeKey(4 * MsPerDay + 10 * Hour), NumberValue(300)),
      Entry(DateTimeKey(3 * MsPerDay - 1000), NumberValue(400)),
      Entry(DateTimeKey(9 * MsPerDay + 12 * Hour), NumberValue(500)),
      Entry(DateKey(3 * MsPerDay), NumberValue(600)),
      Entry(TextKey, NumberValue(700)) }

\* Entries of a Solcast forecasts array (pv_estimate in tenths of a watt);
\* the period ends of one response are distinct.
SolcastForecasts ==
    { [period_end |-> InstantKey(3 * MsPerDay + 11 * Hour + Hour \div 2),
       pv_estimate |-> 5000],
      [period_end |-> InstantKey(3 * MsPerDay + 12 * Hour),
       pv_estimate |-> 4995],
      [period_end |-> InstantKey(4 * MsPerDay + Hour \div 4),
       pv_estimate |-> 12344],
      [period_end |-> TextKey, pv_estimate |-> 10] }

\* A response body: the result object of forecast.solar, or the forecasts
\* array of Solcast (which may be missing).
ForecastSolarBody(result) ==
    [result |-> result, hasForecasts |-> FALSE, forecasts |-> << >>]

SolcastBody(hasForecasts, forecasts) ==
    [result |-> << >>, hasForecasts |-> hasForecasts, forecasts |-> forecasts]

\* forecast.solar bodies: the power series alone, or with an energy series.
ForecastSolarBodies ==
    { ForecastSolarBody(<< Member("watts", m) >>) :
        m \in Arrangements(ForecastEntries, MaxPoints) }
    \cup { ForecastSolarBody(<< Member("watt_hours", << >>), Member("watts", m) >>) :
             m \in Arrangements(ForecastEntries, MaxPoints) }

SolcastBodies ==
    { SolcastBody(TRUE, f) : f \in Arrangements(SolcastForecasts, MaxPoints) }
    \cup { SolcastBody(FALSE, << >>) }

Periods ==
    { "all", "today", "tomorrow", "day+2", "day+3", "day+4", "day+5", "day+6" }

\* The queries whose frames are built: metric and period given or left out.
PipeQueries ==
    { [BaseQuery EXCEPT !.metric = m, !.forecastPeriod = p] :
        m \in {Undefined, "watts", "watt_hours"},
        p \in Periods \cup {Undefined} }

\* pipe: the provider, the body it answered with, the canonical result the
\* adapter made of it, the query, the process's time zone, the frame, and
\* how far the response has come.
NoPipe ==
    [stage |-> "none", provider |-> "none", body |-> SolcastBody(FALSE, << >>),
     allData |-> << >>, query |-> BaseQuery, zone |-> 0, frame |-> << >>]

\* test: the testDatasource() invocation: where it stands, the adapter call
\* it awaits, and the {status, message} it returned.
NoTest ==
    [pc |-> "idle", req |-> UnusedReq, status |-> "none", message |-> "none"]

-----------------------------------------------------------------------------
(* The state machine *)

Init ==
    /\ \E d \in Deployments :
          /\ cfg = [provider |-> d[1], secureApiKey |-> d[2].secureApiKey,
                    hasApiKeyFlag |-> d[2].hasApiKeyFlag,
                    locations |-> Locations]
          /\ panels = d[3]
    /\ now = StartTime
    /\ cache = << >>
    /\ lastApiCall = << >>
    /\ req = [i \in Slots |-> UnusedReq]
    /\ batch = NoBatch
    /\ lastFetchAt = << >>
    /\ pipe = NoPipe
    /\ test = NoTest

\* Every doRequest of the batch has settled and the caller has not yet been
\* handed the outcome.
Settled == batch.status # "none" /\ \A i \in Slots : ~Pending(req[i])

\* Time passes (not between the last settlement and the hand-over, which
\* are microtasks of one turn of the event loop).
Tick ==
    /\ now < MaxTime
    /\ ~Settled
    /\ now' = now + TickMs
    /\ UNCHANGED <<pipe, test>>
    /\ UNCHANGED <<cfg, panels, cache, lastApiCall, req, batch, lastFetchAt>>

\* query(options): doRequest is called for every target in turn; each runs
\* to its first await.  None of these segments writes the cache or
\* lastApiCall, so every target sees the same state.
Query(targets) ==
    /\ batch.status = "none"
    /\ req' = [i \in Slots |->
                 IF i <= Len(targets) THEN DoRequestStart(targets[i])
                 ELSE UnusedReq]
    /\ batch' = BatchAtStart(req')
    /\ lastFetchAt' =
         IF \E i \in Slots : Pending(req'[i])
         THEN [p \in {getProvider} |-> now] ELSE lastFetchAt
    /\ UNCHANGED <<pipe, test>>
    /\ UNCHANGED <<cfg, panels, now, cache, lastApiCall>>

\* Mutant of Response: the call timestamp is recorded when the response
\* arrives, before it is known whether the fetch succeeded.
Response_StampsAnyOutcome(i, kind) ==
    /\ Pending(req[i])
    /\ LET r == AfterResponse(req[i], kind, ProviderBody)
       IN  /\ req' = [req EXCEPT ![i] = r]
           /\ lastApiCall' = LastApiCallAfterFetch
           /\ IF r.via = "fetch"
              THEN cache' = CacheAfterFetch(CacheKeyOf(r.q), r.data)
              ELSE UNCHANGED cache
    /\ batch' = BatchAfter(batch, req', i)
    /\ UNCHANGED <<pipe, test>>
    /\ UNCHANGED <<cfg, panels, now, lastFetchAt>>

\* Mutant of Response: a successful fetch stores its result but does not
\* record the call in lastApiCall.
Response_SkipsCallStamp(i, kind) ==
    /\ Pending(req[i])
    /\ LET r == AfterResponse(req[i], kind, ProviderBody)
       IN  /\ req' = [req EXCEPT ![i] = r]
           /\ IF r.via = "fetch"
              THEN cache' = CacheAfterFetch(CacheKeyOf(r.q), r.data)
              ELSE UNCHANGED cache
    /\ batch' = BatchAfter(batch, req', i)
    /\ UNCHANGED <<pipe, test>>
    /\ UNCHANGED <<cfg, panels, now, lastApiCall, lastFetchAt>>

\* A response to the pending call of target i arrives; the adapter and
\* doRequest continue to the next await or to the end.
Response(i, kind) ==
    /\ Pending(req[i])
    /\ LET r == AfterResponse(req[i], kind, ProviderBody)
       IN  /\ req' = [req EXCEPT ![i] = r]
           /\ IF r.via = "fetch"
              THEN /\ lastApiCall' = LastApiCallAfterFetch
                   /\ cache' = CacheAfterFetch(CacheKeyOf(r.q), r.data)
              ELSE UNCHANGED <<cache, lastApiCall>>
    /\ batch' = BatchAfter(batch, req', i)
    /\ UNCHANGED <<pipe, test>>
    /\ UNCHANGED <<cfg, panels, now, lastFetchAt>>

\* The caller has the outcome of the batch; the invocations are gone.
Return ==
    /\ Settled
    /\ req' = [i \in Slots |-> UnusedReq]
    /\ batch' = NoBatch
    /\ UNCHANGED <<pipe, test>>
    /\ UNCHANGED <<cfg, panels, now, cache, lastApiCall, lastFetchAt>>

\* The target lists a panel refresh can send.
TargetLists ==
    UNION { [1..n -> panels] : n \in 1..MaxTargets }

Next ==
    \/ Tick
    \/ \E targets \in TargetLists : Query(targets)
    \/ \E i \in Slots, kind \in ResponseKinds : Response(i, kind)
    \/ Return

Spec == Init /\ [][Next]_vars

-----------------------------------------------------------------------------
(* The response pipeline as a state machine *)

PipeInit ==
    /\ \E provider \in {"forecast.solar", "solcast"} :
       \E body \in (IF provider = "solcast" THEN SolcastBodies
                    ELSE ForecastSolarBodies) :
       \E query \in PipeQueries, zone \in Zones :
          /\ cfg = [provider |-> provider, secureApiKey |-> TRUE,
                    hasApiKeyFlag |-> FALSE, locations |-> Locations]
          /\ pipe = [NoPipe EXCEPT !.stage = "body", !.provider = provider,
                                   !.body = body, !.query = query,
                                   !.zone = zone]
    /\ now \in Todays
    /\ panels = {}
    /\ cache = << >>
    /\ lastApiCall = << >>
    /\ req = [i \in Slots |-> UnusedReq]
    /\ batch = NoBatch
    /\ lastFetchAt = << >>
    /\ test = NoTest

\* fetchForecastSolarDataViaProxy hands the body to processForecastSolarData.
ProcessForecast ==
    /\ pipe.stage = "body"
    /\ pipe.provider = "forecast.solar"
    /\ pipe' = [pipe EXCEPT !.stage = "canonical",
                            !.allData = processForecastSolarData(pipe.body)]
    /\ UNCHANGED <<cfg, panels, now, cache, lastApiCall, req, batch,
                   lastFetchAt, test>>

\* fetchSolcastData builds its result from the body.
NormaliseSolcast ==
    /\ pipe.stage = "body"
    /\ pipe.provider = "solcast"
    /\ pipe' = [pipe EXCEPT !.stage = "canonical",
                            !.allData = SolcastCanonical(pipe.body, pipe.zone)]
    /\ UNCHANGED <<cfg, panels, now, cache, lastApiCall, req, batch,
                   lastFetchAt, test>>

\* doRequest returns formatAsTimeSeries(allData, query).
Format ==
    /\ pipe.stage = "canonical"
    /\ pipe' = [pipe EXCEPT !.stage = "frame",
                            !.frame = formatAsTimeSeries(pipe.allData,
                                          pipe.query, now, pipe.zone)]
    /\ UNCHANGED <<cfg, panels, now, cache, lastApiCall, req, batch,
                   lastFetchAt, test>>

PipeNext == ProcessForecast \/ NormaliseSolcast \/ Format

PipeSpec == PipeInit /\ [][PipeNext]_vars

-----------------------------------------------------------------------------
(* The cache over half an hour, minute by minute *)

\* One dashboard panel at a time queries a datasource whose credentials are
\* in order; the provider answers within the minute.
TtlInit ==
    /\ \E provider \in {"forecast.solar", "solcast"} :
          cfg = [provider |-> provider, secureApiKey |-> provider = "solcast",
                 hasApiKeyFlag |-> FALSE, locations |-> Locations]
    /\ panels = MetricPanels
    /\ now = StartTime
    /\ cache = << >>
    /\ lastApiCall = << >>
    /\ req = [i \in Slots |-> UnusedReq]
    /\ batch = NoBatch
    /\ lastFetchAt = << >>
    /\ pipe = NoPipe
    /\ test = NoTest

\* A minute passes while no query() is in progress.
Minute ==
    /\ now < StartTime + MaxMinutes * 60 * 1000
    /\ batch.status = "none"
    /\ now' = now + 60 * 1000
    /\ UNCHANGED <<cfg, panels, cache, lastApiCall, req, batch, lastFetchAt,
                   pipe, test>>

TtlNext ==
    \/ Minute
    \/ \E q \in panels : Query(<< q >>)
    \/ \E i \in Slots : Response(i, "ok")
    \/ Return

TtlSpec == TtlInit /\ [][TtlNext]_vars

-----------------------------------------------------------------------------
(* Cache keys of pairs of queries *)

\* Queries that differ in one or two of the fields the key is made of, in
\* the refId only, or in a field being left out or given with its default.  Site ids are free text ('xxxx-xxxx-xxxx-xxxx' in the
\* query editor), dates are 'YYYY-MM-DD'; dataType and metric are strings.
KeyQueries ==
    { BaseQuery,
      [BaseQuery EXCEPT !.refId = "B"],
      [BaseQuery EXCEPT !.metric = "watts"],
      [BaseQuery EXCEPT !.metric = "watt_hours"],
      [BaseQuery EXCEPT !.forecastPeriod = "all"],
      [BaseQuery EXCEPT !.forecastPeriod = "today"],
      [BaseQuery EXCEPT !.startDate = "2025-07-01", !.endDate = "2025-07-02"],
      [BaseQuery EXCEPT !.startDate = "2025-07-02", !.endDate = "2025-07-01"],
      [BaseQuery EXCEPT !.solcastSiteId = "a1b2"],
      [BaseQuery EXCEPT !.solcastSiteId = "a1b2-c3d4"],
      [BaseQuery EXCEPT !.solcastSiteId = "a1b2", !.dataType = "c3d4-forecast"] }

\* A datasource with its credentials in order and a dashboard of two panels.
KeyInit ==
    /\ \E provider \in {"forecast.solar", "solcast"} :
          cfg = [provider |-> provider, secureApiKey |-> TRUE,
                 hasApiKeyFlag |-> FALSE, locations |-> Locations]
    /\ panels \in { S \in SUBSET KeyQueries : Cardinality(S) = 2 }
    /\ now = StartTime
    /\ cache = << >>
    /\ lastApiCall = << >>
    /\ req = [i \in Slots |-> UnusedReq]
    /\ batch = NoBatch
    /\ lastFetchAt = << >>
    /\ pipe = NoPipe
    /\ test = NoTest

\* The panels are refreshed one at a time and the provider answers.
KeyNext ==
    \/ Tick
    \/ \E q \in panels : Query(<< q >>)
    \/ \E i \in Slots : Response(i, "ok")
    \/ Return

KeySpec == KeyInit /\ [][KeyNext]_vars

-----------------------------------------------------------------------------
(* A dashboard whose queries all have one cache key *)

\* The panels of such a dashboard: one query, or two that differ in the
\* refId only.
OneKeyPanels ==
    { {BaseQuery},
      {[BaseQuery EXCEPT !.metric = "watt_hours_day"]},
      {BaseQuery, [BaseQuery EXCEPT !.refId = "B"]} }

OneKeyInit ==
    /\ \E provider \in {"forecast.solar", "solcast"},
          c \in {NoCredential, SecureKey} :
          cfg = [provider |-> provider, secureApiKey |-> c.secureApiKey,
                 hasApiKeyFlag |-> c.hasApiKeyFlag, locations |-> Locations]
    /\ panels \in OneKeyPanels
    /\ now = StartTime
    /\ cache = << >>
    /\ lastApiCall = << >>
    /\ req = [i \in Slots |-> UnusedReq]
    /\ batch = NoBatch
    /\ lastFetchAt = << >>
    /\ pipe = NoPipe
    /\ test = NoTest

\* Batches of any of the panels, every kind of response, time passing.
OneKeySpec == OneKeyInit /\ [][Next]_vars

-----------------------------------------------------------------------------
(* testDatasource *)

\* What a promise of getBackendSrv().get() is rejected with, or what is
\* thrown: an Error, a string, a response object with data.message, one with
\* statusText only, an object with message, another object, or nothing
\* (null or undefined).
ErrorShapes ==
    {"Error", "string", "dataMessage", "statusText", "message", "object", "null"}

\* Mutant of CatchOutcome: error.data.message is read without the guards, so
\* a value without a data member raises a TypeError inside the catch block.
CatchOutcome_Unguarded(shape) ==
    IF shape \in {"Error", "string"}
    THEN [pc |-> "returned", status |-> "error", message |-> shape]
    ELSE IF shape = "dataMessage"
    THEN [pc |-> "returned", status |-> "error", message |-> "data.message"]
    ELSE [pc |-> "threw", status |-> "none", message |-> "TypeError"]

\* The catch block of testDatasource: the message is taken from the value
\* by its shape, 'Unknown error' when it has none.
CatchOutcome(shape) ==
    [pc |-> "returned", status |-> "error",
     message |->
        CASE shape = "Error" -> "error.message"
          [] shape = "string" -> "error"
          [] shape = "dataMessage" -> "error.data.message"
          [] shape = "statusText" -> "HTTP status: statusText"
          [] shape = "message" -> "error.message"
          [] shape = "object" -> "JSON.stringify(error)"
          [] OTHER -> "Unknown error"]

\* return {status: 'success', message}
SuccessOutcome ==
    [pc |-> "returned", status |-> "success",
     message |-> IF cfg.secureApiKey THEN "with API key" ELSE "free tier"]

\* The parameters testDatasource calls the adapter with.
TestQuery ==
    [BaseQuery EXCEPT !.latitude = DefaultLatitude,
                      !.longitude = DefaultLongitude,
                      !.declination = DefaultDeclination,
                      !.azimuth = DefaultAzimuth, !.kwp = DefaultKwp,
                      !.solcastSiteId = "test-site-id",
                      !.dataType = "forecast", !.metric = "watts"]

\* testDatasource with the adapter call standing as r: awaiting while the
\* call is pending, the success object when it returned, the catch block
\* when it threw (the adapters' own errors are Error instances; a rejection
\* of get() has the shape it was rejected with).
TestAfter(r, shape) ==
    LET outcome ==
            IF Pending(r) THEN [pc |-> "awaiting", status |-> "none",
                                message |-> "none"]
            ELSE IF r.via = "error"
            THEN CatchOutcome(IF r.err = "Upstream" THEN shape ELSE "Error")
            ELSE SuccessOutcome
    IN  [pc |-> outcome.pc, req |-> r, status |-> outcome.status,
         message |-> outcome.message]

\* testDatasource() up to its await or its return.
TestDatasource ==
    /\ test.pc = "idle"
    /\ test' =
         IF cfg.provider = "solcast"
         THEN IF ~cfg.secureApiKey
              THEN [pc |-> "returned", req |-> UnusedReq, status |-> "error",
                    message |-> "API key is required for Solcast provider"]
              ELSE TestAfter(SolcastStart(TestQuery), "Error")
         ELSE TestAfter(ForecastSolarStart(TestQuery), "Error")
    /\ UNCHANGED <<cfg, panels, now, cache, lastApiCall, req, batch,
                   lastFetchAt, pipe>>

\* Mutant of TestResponse: a successful test call is recorded in lastApiCall
\* like a fetch of doRequest.
TestResponse_CountsCall(kind, shape) ==
    /\ test.pc = "awaiting"
    /\ test' = TestAfter(AfterResponse(test.req, kind, ProviderBody), shape)
    /\ lastApiCall' = IF test'.status = "success" THEN LastApiCallAfterFetch
                      ELSE lastApiCall
    /\ UNCHANGED <<cfg, panels, now, cache, req, batch, lastFetchAt, pipe>>

\* The call testDatasource awaits is answered: with a body, or with a
\* rejection of some shape.
TestResponse(kind, shape) ==
    /\ test.pc = "awaiting"
    /\ test' = TestAfter(AfterResponse(test.req, kind, ProviderBody), shape)
    /\ UNCHANGED <<cfg, panels, now, cache, lastApiCall, req, batch,
                   lastFetchAt, pipe>>

\* The settings page has the result; the test can be run again.
TestShown ==
    /\ test.pc \in {"returned", "threw"}
    /\ test' = NoTest
    /\ UNCHANGED <<cfg, panels, now, cache, lastApiCall, req, batch,
                   lastFetchAt, pipe>>

\* A datasource as saved: any provider setting, any credential flags.
TestInit ==
    /\ \E provider \in {"forecast.solar", "solcast", Undefined},
          c \in {NoCredential, SecureKey, FlagOnly} :
          cfg = [provider |-> provider, secureApiKey |-> c.secureApiKey,
                 hasApiKeyFlag |-> c.hasApiKeyFlag, locations |-> Locations]
    /\ panels = {}
    /\ now = StartTime
    /\ cache = << >>
    /\ lastApiCall = << >>
    /\ req = [i \in Slots |-> UnusedReq]
    /\ batch = NoBatch
    /\ lastFetchAt = << >>
    /\ pipe = NoPipe
    /\ test = NoTest

TestNext ==
    \/ Tick
    \/ TestDatasource
    \/ \E kind \in ResponseKinds, shape \in ErrorShapes : TestResponse(kind, shape)
    \/ TestShown

TestSpec == TestInit /\ [][TestNext]_vars

-----------------------------------------------------------------------------
(* testDatasource on a datasource that serves a dashboard *)

\* "Save & test" is pressed while the panels of a dashboard query the
\* datasource.
TestAmongQueriesInit ==
    /\ \E provider \in {"forecast.solar", "solcast"},
          c \in {NoCredential, SecureKey} :
          cfg = [provider |-> provider, secureApiKey |-> c.secureApiKey,
                 hasApiKeyFlag |-> c.hasApiKeyFlag, locations |-> Locations]
    /\ panels = MetricPanels
    /\ now = StartTime
    /\ cache = << >>
    /\ lastApiCall = << >>
    /\ req = [i \in Slots |-> UnusedReq]
    /\ batch = NoBatch
    /\ lastFetchAt = << >>
    /\ pipe = NoPipe
    /\ test = NoTest

\* The panels are refreshed one at a time; the test runs at any moment.
TestAmongQueriesNext ==
    \/ Tick
    \/ \E q \in panels : Query(<< q >>)
    \/ \E i \in Slots, kind \in {"ok", "reject"} : Response(i, kind)
    \/ Return
    \/ TestDatasource
    \/ \E kind \in ResponseKinds : TestResponse(kind, "Error")
    \/ TestShown

TestAmongQueriesSpec == TestAmongQueriesInit /\ [][TestAmongQueriesNext]_vars

-----------------------------------------------------------------------------
(* Properties *)

\* Target i is called in this step (query() maps doRequest over the targets).
Started(i) == req[i].pc = "unused" /\ req'[i].pc # "unused"

\* The effective TTL as the specification states it.
SpecTTL(provider, metric) ==
    IF provider = "solcast" THEN 30 * 60 * 1000
    ELSE IF metric = "watt_hours_day" THEN 30 * 60 * 1000
    ELSE 10 * 60 * 1000

\* The minimum interval between calls as the specification states it.
SpecMinInterval(provider) ==
    IF provider = "solcast" THEN 30 * 60 * 1000 ELSE 5 * 60 * 1000

\* The cache holds an entry for q's key.
HasEntry(q) == CacheKeyOf(q) \in DOMAIN cache

\* Age of the entry for q's key.
EntryAge(q) == now - cache[CacheKeyOf(q)].timestamp

\* No target of the current batch has stored a result or may still do so:
\* the cache is as the earlier batches left it.
NoFetchInBatch ==
    \A j \in Slots : req[j].via # "fetch" /\ ~Pending(req[j])

\* The request ended without any network call.
NoNetworkCall(r) == r.pc = "done" /\ r.calls = <<>>

\* C1: a doRequest that runs while its key has an entry younger than the
\* effective TTL serves the stored canonical result, issues no network call
\* and leaves the cache and lastApiCall unchanged.
C1_CacheHit ==
    [][\A i \in Slots :
         ( /\ Started(i)
           /\ ~LocationNotFound(req'[i].q)
           /\ HasEntry(req'[i].q)
           /\ EntryAge(req'[i].q)
                < SpecTTL(cfg.provider, QueryMetric(req'[i].q)) )
         => /\ req'[i].via = "hit"
            /\ req'[i].data = cache[CacheKeyOf(req'[i].q)].data
            /\ NoNetworkCall(req'[i])
            /\ cache' = cache
            /\ lastApiCall' = lastApiCall]_vars

\* C1 witness: a request was served from an entry fetched at an earlier
\* instant, and the entry still holds what was served.
C1_Witness ==
    \E i \in Slots :
        /\ req[i].via = "hit"
        /\ HasEntry(req[i].q)
        /\ EntryAge(req[i].q) > 0
        /\ req[i].data = cache[CacheKeyOf(req[i].q)].data
        /\ req[i].data.ver > 0

\* C2: a doRequest that finds an expired entry for its key returns the stale
\* entry, without a network call and without changing the cache or
\* lastApiCall, when less than the provider's minimum interval (30 min
\* solcast, 5 min forecast.solar) has passed since lastApiCall[provider];
\* when exactly the minimum interval has passed it fetches.
C2_StaleFallback ==
    [][\A i \in Slots :
         ( /\ Started(i)
           /\ ~LocationNotFound(req'[i].q)
           /\ HasEntry(req'[i].q)
           /\ EntryAge(req'[i].q)
                >= SpecTTL(cfg.provider, QueryMetric(req'[i].q))
           /\ cfg.provider \in DOMAIN lastApiCall )
         => LET elapsed == now - lastApiCall[cfg.provider]
            IN  /\ elapsed < SpecMinInterval(cfg.provider)
                   => /\ req'[i].via = "stale"
                      /\ req'[i].data = cache[CacheKeyOf(req'[i].q)].data
                      /\ NoNetworkCall(req'[i])
                      /\ cache' = cache
                      /\ lastApiCall' = lastApiCall
                /\ elapsed = SpecMinInterval(cfg.provider)
                   => /\ Pending(req'[i])
                      /\ Len(req'[i].calls) = 1]_vars

\* C2 witness: a request was answered with an expired entry.
C2_Witness ==
    \E i \in Slots :
        /\ req[i].via = "stale"
        /\ HasEntry(req[i].q)
        /\ EntryAge(req[i].q)
             >= SpecTTL(cfg.provider, QueryMetric(req[i].q))
        /\ req[i].data = cache[CacheKeyOf(req[i].q)].data
        /\ now - lastApiCall[cfg.provider] < SpecMinInterval(cfg.provider)

\* The other case of C2 is reached too: an expired entry is refetched when
\* exactly the minimum interval has passed since the last call.
C2_ExactIntervalReached ==
    \E i \in Slots :
        /\ Pending(req[i])
        /\ HasEntry(req[i].q)
        /\ EntryAge(req[i].q)
             >= SpecTTL(cfg.provider, QueryMetric(req[i].q))
        /\ now - lastApiCall[cfg.provider] = SpecMinInterval(cfg.provider)

\* The targets whose doRequest issues its provider fetch in this step.
NewFetches == { i \in Slots : Started(i) /\ Pending(req'[i]) }

\* C3: two outbound provider fetches for the same provider are never issued
\* less than the provider's minimum interval apart (the datasource has one
\* provider): a step issues at most one fetch, and not sooner than the
\* minimum interval after the previous one.
C3_RateLimit ==
    [][NewFetches # {}
         => /\ Cardinality(NewFetches) = 1
            /\ cfg.provider \in DOMAIN lastFetchAt
                 => now - lastFetchAt[cfg.provider]
                      >= SpecMinInterval(cfg.provider)]_vars

\* C4: when the provider fetch of a doRequest fails, the request ends in that
\* error and the step leaves the cache and lastApiCall as they were; the
\* cache and lastApiCall change only when a pending fetch ends in success.
C4_FailedFetch ==
    [][/\ \A i \in Slots :
            (req[i].pc # "done" /\ req'[i].via = "error")
            => /\ req'[i].err # "none"
               /\ req'[i].pc = "done"
               /\ cache' = cache
               /\ lastApiCall' = lastApiCall
       /\ (lastApiCall' # lastApiCall \/ cache' # cache)
            => \E i \in Slots :
                  /\ Pending(req[i])
                  /\ req'[i].via = "fetch"
                  /\ lastApiCall'[cfg.provider] = now]_vars

\* C4 witness: the refetch of an expired entry was rejected by the provider;
\* the entry and lastApiCall are still those of the earlier fetch.
C4_Witness ==
    \E i \in Slots :
        /\ req[i].via = "error"
        /\ req[i].got # <<>>
        /\ HasEntry(req[i].q)
        /\ EntryAge(req[i].q) > 0
        /\ lastApiCall[cfg.provider] < now
        /\ NoFetchInBatch

\* The targets whose doRequest was fulfilled.
Fulfilled == { i \in Slots : req[i].via \in {"hit", "stale", "fetch"} }

\* C5: when one target of a batch fails, the batch still reports the frames
\* of the targets that succeeded.
C5_FanOutIndependence ==
    Settled => Fulfilled \subseteq batch.frames

\* C6: a query with a location id, without the ad-hoc override, whose id is
\* not among the configured locations fails with the not-found error, with no
\* network call and with the cache and lastApiCall unchanged.
C6_NotFoundFirst ==
    [][\A i \in Slots :
         ( /\ Started(i)
           /\ req'[i].q.locationId \notin {Undefined, ""}
           /\ ~req'[i].q.useCustomLocation
           /\ \A loc \in cfg.locations : loc.id # req'[i].q.locationId )
         => /\ req'[i].via = "error"
            /\ req'[i].err = "NotFound"
            /\ NoNetworkCall(req'[i])
            /\ cache' = cache
            /\ lastApiCall' = lastApiCall]_vars

\* C6 witness: the not-found error was raised while the cache held a fresh
\* entry (of an earlier batch) for the parameters the query falls back to
\* with the override.
C6_Witness ==
    \E i \in Slots :
        LET adhoc == [req[i].q EXCEPT !.useCustomLocation = TRUE]
        IN  /\ req[i].err = "NotFound"
            /\ HasEntry(adhoc)
            /\ EntryAge(adhoc) < SpecTTL(cfg.provider, QueryMetric(adhoc))
            /\ NoFetchInBatch

\* C7: a forecast.solar request for historical data with neither the secure
\* apiKey field nor the hasApiKey flag set fails with the configuration
\* error, makes no network call and changes neither cache nor lastApiCall.
C7_HistoricalNeedsKey ==
    [][\A i \in Slots :
         ( /\ Started(i)
           /\ cfg.provider = "forecast.solar"
           /\ req'[i].q.dataType = "historical"
           /\ ~cfg.secureApiKey
           /\ ~cfg.hasApiKeyFlag )
         => /\ req'[i].via = "error"
            /\ req'[i].err = "HistoricalNeedsKey"
            /\ NoNetworkCall(req'[i])
            /\ cache' = cache
            /\ lastApiCall' = lastApiCall]_vars

\* C7 witness: a historical request failed for want of a key.
C7_Witness ==
    \E i \in Slots :
        /\ req[i].q.dataType = "historical"
        /\ req[i].err = "HistoricalNeedsKey"
        /\ ~hasApiKey

\* The error a failed call propagates, as the specification names it.
SpecCallError(kind) ==
    IF kind = "reject" THEN "Upstream" ELSE "InvalidStructure"

\* The forecast.solar requests for forecast data that have been started.
ForecastRequests ==
    { i \in Slots : /\ req[i].pc # "unused"
                    /\ cfg.provider = "forecast.solar"
                    /\ req[i].q.dataType \in {Undefined, "forecast"} }

\* C8: for forecast.solar forecast requests, with a credential the paid
\* route is called first and the free route only after the paid attempt
\* failed (the call was rejected or its body refused), once; a failed
\* fallback propagates the fallback's error.  Without a credential the only
\* call is to the free route and its failure propagates.
C8_TierFallback ==
    \A i \in ForecastRequests :
        LET calls == req[i].calls
            got == req[i].got
        IN  IF cfg.secureApiKey \/ cfg.hasApiKeyFlag
            THEN /\ calls # <<>> => calls[1] = "forecast-solar-paid"
                 /\ Len(calls) <= 2
                 /\ Len(calls) = 2
                      => /\ calls[2] = "forecast-solar-free"
                         /\ Len(got) >= 1
                         /\ got[1] # "ok"
                 /\ (Len(got) >= 1 /\ got[1] # "ok") => Len(calls) = 2
                 /\ (Len(got) >= 1 /\ got[1] = "ok")
                      => req[i].via = "fetch" /\ Len(calls) = 1
                 /\ (Len(got) = 2 /\ got[2] # "ok")
                      => /\ req[i].via = "error"
                         /\ req[i].err = SpecCallError(got[2])
            ELSE /\ calls # <<>> => calls = <<"forecast-solar-free">>
                 /\ Len(got) <= 1
                 /\ (Len(got) = 1 /\ got[1] # "ok")
                      => /\ req[i].via = "error"
                         /\ req[i].err = SpecCallError(got[1])

\* C8 witness: the paid call was rejected, the free call answered with a body
\* that was refused, and the request failed with the fallback's error.
C8_Witness ==
    \E i \in ForecastRequests :
        /\ req[i].calls = <<"forecast-solar-paid", "forecast-solar-free">>
        /\ req[i].got = <<"reject", "noresult">>
        /\ req[i].err = "InvalidStructure"

\* C9: a failed historical forecast.solar call and a failed solcast call are
\* each the only network call of their request, which ends in an error; the
\* free route is never called for historical data.
C9_NoRetry ==
    \A i \in Slots :
        LET calls == req[i].calls
            got == req[i].got
        IN  /\ ( /\ req[i].pc # "unused"
                 /\ cfg.provider = "forecast.solar"
                 /\ req[i].q.dataType = "historical" )
               => /\ \A n \in 1..Len(calls) : calls[n] # "forecast-solar-free"
                  /\ (got # <<>> /\ got[1] = "reject")
                       => /\ calls = <<"forecast-solar-paid">>
                          /\ req[i].via = "error"
                          /\ req[i].pc = "done"
            /\ ( /\ req[i].pc # "unused"
                 /\ cfg.provider = "solcast"
                 /\ got # <<>>
                 /\ got[1] = "reject" )
               => /\ calls = <<"solcast">>
                  /\ req[i].via = "error"
                  /\ req[i].pc = "done"

\* C9 witness: a historical call was rejected and the request failed after
\* that one call.
C9_Witness ==
    \E i \in Slots :
        /\ req[i].q.dataType = "historical"
        /\ req[i].got = <<"reject">>
        /\ req[i].calls = <<"forecast-solar-paid">>
        /\ req[i].via = "error"

\* The same for the other provider: a rejected solcast call is reached.
C9_SolcastReached ==
    \E i \in Slots :
        /\ cfg.provider = "solcast"
        /\ req[i].got = <<"reject">>
        /\ req[i].via = "error"

\* C10: on solcast a request that reaches the adapter fails without a network
\* call when no credential is configured, and when the site id is missing or
\* empty; the credential is checked first.
C10_SolcastPreconditions ==
    \A i \in Slots :
        ( /\ req[i].pc # "unused"
          /\ cfg.provider = "solcast"
          /\ req[i].via \notin {"hit", "stale"}
          /\ req[i].err # "NotFound" )
        => /\ ~cfg.secureApiKey
              => /\ req[i].err = "NoSolcastKey"
                 /\ NoNetworkCall(req[i])
           /\ (cfg.secureApiKey /\ req[i].q.solcastSiteId \in {Undefined, ""})
              => /\ req[i].err = "NoSiteId"
                 /\ NoNetworkCall(req[i])

\* C10 witness: with neither credential nor site id the request failed on
\* the credential.
C10_Witness ==
    \E i \in Slots :
        /\ cfg.provider = "solcast"
        /\ ~cfg.secureApiKey
        /\ req[i].q.solcastSiteId \in {Undefined, ""}
        /\ req[i].err = "NoSolcastKey"

\* The site-id error is reached too.
C10_NoSiteReached ==
    \E i \in Slots : req[i].err = "NoSiteId" /\ req[i].q.solcastSiteId = ""

\* C11: there is no in-flight de-duplication.  Targets of one batch that
\* compute the same cache key and miss the cache each issue their own
\* provider fetch (one is pending exactly when the other is, each with its
\* own call), and every fetch that completes with success overwrites the
\* entry of its key and lastApiCall, so the last one to complete determines
\* both.
C11_NoDeduplication ==
    [][/\ \A i, j \in Slots :
            ( /\ i # j
              /\ Started(i)
              /\ Started(j)
              /\ ~LocationNotFound(req'[i].q)
              /\ ~LocationNotFound(req'[j].q)
              /\ CacheKeyOf(req'[i].q) = CacheKeyOf(req'[j].q)
              /\ ~HasEntry(req'[i].q) )
            => /\ Pending(req'[i]) <=> Pending(req'[j])
               /\ req'[i].calls = req'[j].calls
               /\ Pending(req'[i]) => Len(req'[i].calls) = 1
       /\ \A i \in Slots :
            (Pending(req[i]) /\ req'[i].via = "fetch")
            => /\ cache'[CacheKeyOf(req[i].q)]
                    = [data |-> req'[i].data, timestamp |-> now]
               /\ lastApiCall'[cfg.provider] = now]_vars

\* C11 witness: two targets of one batch with the same key both fetched;
\* the one that completed later overwrote the entry and lastApiCall.
C11_Witness ==
    \E i, j \in Slots :
        /\ i # j
        /\ req[i].via = "fetch"
        /\ req[j].via = "fetch"
        /\ CacheKeyOf(req[i].q) = CacheKeyOf(req[j].q)
        /\ req[i].data.ver < req[j].data.ver
        /\ cache[CacheKeyOf(req[j].q)]
             = [data |-> req[j].data, timestamp |-> req[j].data.ver]
        /\ lastApiCall[cfg.provider] = req[j].data.ver

-----------------------------------------------------------------------------
(* Fairness: every network call that was issued is eventually answered *)

\* getBackendSrv().get(url) settles: a pending call of target i gets some
\* response (a body or a rejection).
LiveSpec ==
    Spec /\ \A i \in Slots : WF_vars(\E kind \in ResponseKinds : Response(i, kind))

\* C12: query() starts every target in one step, without waiting for another
\* target; its promise is fulfilled only when every target has completed
\* without error, with one frame per target, and is rejected as soon as a
\* target fails; a pending target leaves that state only when its call is
\* answered (no timeout, no cancellation), and the pending promise settles
\* only in such a step; if every issued call is eventually answered, the
\* promise eventually settles.
C12_BatchCompletion ==
    /\ [](/\ batch.status = "resolved"
               => /\ \A i \in Slots : ~Pending(req[i]) /\ req[i].via # "error"
                  /\ batch.frames = Targets(req)
          /\ (\E i \in Slots : req[i].via = "error")
               => batch.status = "rejected"
          /\ batch.status = "pending" => \E i \in Slots : Pending(req[i]))
    /\ [][/\ (\E i \in Slots : Started(i))
               => /\ \A j \in Slots : req[j].pc = "unused"
                  /\ batch.status = "none"
                  /\ \E targets \in TargetLists :
                        \A j \in Slots :
                           IF j <= Len(targets)
                           THEN Started(j) /\ req'[j].q = targets[j]
                           ELSE req'[j].pc = "unused"
          /\ \A i \in Slots :
               (Pending(req[i]) /\ req'[i] # req[i])
               => Len(req'[i].got) = Len(req[i].got) + 1
          /\ (batch.status = "pending" /\ batch'.status # "pending")
               => \E i \in Slots : Pending(req[i]) /\ req'[i].pc = "done"]_vars
    /\ (batch.status = "pending" ~> batch.status \in {"resolved", "rejected"})

\* C12 witness: a batch of two targets that both called the provider was
\* fulfilled, after both calls were answered, with both frames.
C12_Witness ==
    /\ batch.status = "resolved"
    /\ batch.frames = Slots
    /\ \A i \in Slots : req[i].via = "fetch" /\ req[i].got # <<>>

\* The rejecting case is reached too: the promise is rejected while a
\* sibling's call is still in flight.
C12_RejectedEarlyReached ==
    /\ batch.status = "rejected"
    /\ \E i \in Slots : Pending(req[i])

-----------------------------------------------------------------------------
(* Properties of the response pipeline *)

\* The frame of the response has been built.
Framed == pipe.stage = "frame"

\* The metric and period formatAsTimeSeries works with.
PipeMetric == IF pipe.query.metric \in {Undefined, ""} THEN "watts"
              ELSE pipe.query.metric

PipePeriod == IF pipe.query.forecastPeriod \in {Undefined, ""} THEN "all"
              ELSE pipe.query.forecastPeriod

\* The entries of the selected metric in the canonical result (none when
\* the result has no such metric).
MetricEntries ==
    IF \E n \in 1..Len(pipe.allData) : pipe.allData[n].name = PipeMetric
    THEN pipe.allData[CHOOSE n \in 1..Len(pipe.allData) :
                         pipe.allData[n].name = PipeMetric].map
    ELSE << >>

\* The key is a timestamp that parses.
Parses(key) == key.form \in {"datetime", "date", "instant"}

\* The instant a parseable key denotes, in UTC milliseconds.
InstantOf(key) == IF key.form = "datetime" THEN key.t - pipe.zone ELSE key.t

\* C13: a key that fails to parse produces no point: every point of the frame
\* stems from an entry whose key parses, and carries that entry's instant and
\* value; no point has the sentinel time 0.
C13_UnparseableDropped ==
    Framed
    => \A n \in 1..Len(pipe.frame) :
          /\ pipe.frame[n].Time # 0
          /\ \E k \in 1..Len(MetricEntries) :
                /\ Parses(MetricEntries[k].key)
                /\ InstantOf(MetricEntries[k].key) = pipe.frame[n].Time
                /\ MetricEntries[k].value = pipe.frame[n].Value

\* C14: the points of the frame are in non-decreasing order of Time, in
\* whatever order the canonical result stores its keys.
C14_OutputOrdered ==
    Framed
    => \A n \in 1..(Len(pipe.frame) - 1) :
          pipe.frame[n].Time <= pipe.frame[n + 1].Time

\* C14 witness: a metric map that stores a later timestamp before an earlier
\* one was emitted as two points in ascending order.
C14_Witness ==
    /\ Framed
    /\ Len(MetricEntries) = 2
    /\ Parses(MetricEntries[1].key)
    /\ Parses(MetricEntries[2].key)
    /\ InstantOf(MetricEntries[1].key) > InstantOf(MetricEntries[2].key)
    /\ Len(pipe.frame) = 2
    /\ pipe.frame[1].Time = InstantOf(MetricEntries[2].key)
    /\ pipe.frame[2].Time = InstantOf(MetricEntries[1].key)

\* The local calendar day (counted from the epoch) an instant falls on.
LocalDay(t) == (t + pipe.zone) \div MsPerDay

\* The day offset of a period label, as the specification gives it.
SpecOffset(label) ==
    CASE label = "today" -> 0
      [] label = "tomorrow" -> 1
      [] label = "day+2" -> 2
      [] label = "day+3" -> 3
      [] label = "day+4" -> 4
      [] label = "day+5" -> 5
      [] label = "day+6" -> 6

\* Entry k of the selected metric has a valid timestamp that the period
\* selects: any day for 'all', the local day today + offset otherwise.
Selected(k) ==
    /\ Parses(MetricEntries[k].key)
    /\ PipePeriod # "all"
         => LocalDay(InstantOf(MetricEntries[k].key))
              = LocalDay(now) + SpecOffset(PipePeriod)

\* The row an entry of the selected metric is emitted as.
RowOf(k) ==
    [Time |-> InstantOf(MetricEntries[k].key), Value |-> MetricEntries[k].value]

\* C15: for a day period the frame holds exactly the points of the selected
\* metric whose parsed time lies on the local day today + offset (one row
\* each, no other row); for 'all' or no period it holds every point of the
\* selected metric with a valid timestamp, whatever its day.
C15_PeriodFilter ==
    Framed
    => /\ \A k \in 1..Len(MetricEntries) :
             Selected(k) => \E n \in 1..Len(pipe.frame) : pipe.frame[n] = RowOf(k)
       /\ PipePeriod # "all"
            => /\ \A n \in 1..Len(pipe.frame) :
                     \E k \in 1..Len(MetricEntries) :
                        Selected(k) /\ pipe.frame[n] = RowOf(k)
               /\ Len(pipe.frame)
                    = Cardinality({ k \in 1..Len(MetricEntries) : Selected(k) })

\* C15 witness: of two points of the selected metric, the period 'tomorrow'
\* kept the one on the next local day and left out the other.
C15_Witness ==
    /\ Framed
    /\ PipePeriod = "tomorrow"
    /\ Len(MetricEntries) = 2
    /\ \A k \in 1..2 : Parses(MetricEntries[k].key)
    /\ Len(pipe.frame) = 1
    /\ LocalDay(pipe.frame[1].Time) = LocalDay(now) + 1

\* Both ends of the day are reached: 'today' kept the points at 00:00:00
\* and 23:59:59 local time.
C15_DayEdgesReached ==
    /\ Framed
    /\ PipePeriod = "today"
    /\ Len(pipe.frame) = 2
    /\ pipe.frame[1].Time + pipe.zone = LocalDay(now) * MsPerDay
    /\ pipe.frame[2].Time + pipe.zone = (LocalDay(now) + 1) * MsPerDay - 1000

\* The last label is reached: 'day+6' kept a point six local days on.
C15_DaySixReached ==
    /\ Framed
    /\ PipePeriod = "day+6"
    /\ Len(pipe.frame) = 1
    /\ LocalDay(pipe.frame[1].Time) = LocalDay(now) + 6

\* 'all' is reached with points of different days.
C15_AllReached ==
    /\ Framed
    /\ pipe.query.forecastPeriod = Undefined
    /\ Len(pipe.frame) = 2
    /\ LocalDay(pipe.frame[1].Time) # LocalDay(pipe.frame[2].Time)

\* C16: when the canonical result has no entry for the requested metric,
\* the frame has no points, for every period.
C16_AbsentMetricEmpty ==
    (Framed /\ ~HasMember(pipe.allData, PipeMetric)) => pipe.frame = << >>

-----------------------------------------------------------------------------
(* Properties of query resolution, continued *)

\* An inline parameter as the specification resolves it: the fallback only
\* when the parameter is missing.
SpecResolved(x, fallback) == IF x = UndefNum THEN fallback ELSE x

\* C17: a request with inline parameters that fetched has stored its result
\* under a key that carries each of latitude, longitude, tilt, azimuth and kwp
\* as supplied, 0 included, and the fallback (51.13, 10.42, 30, 180, 5.0)
\* only for a parameter that is missing.
C17_InlineDefaults ==
    \A i \in Slots :
        ( /\ req[i].via = "fetch"
          /\ req[i].q.locationId \in {Undefined, ""} )
        => getCacheKey(cfg.provider,
                       SpecResolved(req[i].q.latitude, 5113),
                       SpecResolved(req[i].q.longitude, 1042),
                       SpecResolved(req[i].q.declination, 30),
                       SpecResolved(req[i].q.azimuth, 180),
                       SpecResolved(req[i].q.kwp, 50),
                       req[i].q.solcastSiteId, QueryDataType(req[i].q),
                       QueryMetric(req[i].q), req[i].q.startDate,
                       req[i].q.endDate, req[i].q.forecastPeriod)
             \in DOMAIN cache

\* C18: getEffectiveCacheTTL gives 30 min for solcast, 30 min for
\* forecast.solar with watt_hours_day and 10 min for forecast.solar with any
\* other metric; a request whose key has an entry is a cache hit exactly when
\* the entry is younger than that; an entry of that age or older is, once the
\* provider's minimum interval has passed since the last call, fetched anew,
\* and the fetch overwrites it.
C18_EffectiveTTL ==
    [][/\ \A m \in {"watts", "watt_hours", "watt_hours_period",
                    "watt_hours_day", "history_watthours"} :
            /\ getEffectiveCacheTTL("solcast", m) = 30 * 60 * 1000
            /\ getEffectiveCacheTTL("forecast.solar", m)
                 = IF m = "watt_hours_day" THEN 30 * 60 * 1000
                   ELSE 10 * 60 * 1000
       /\ \A i \in Slots :
            (Started(i) /\ HasEntry(req'[i].q))
            => /\ req'[i].via = "hit"
                    <=> EntryAge(req'[i].q)
                          < SpecTTL(cfg.provider, QueryMetric(req'[i].q))
               /\ ( /\ EntryAge(req'[i].q)
                         >= SpecTTL(cfg.provider, QueryMetric(req'[i].q))
                    /\ now - lastApiCall[cfg.provider]
                         >= SpecMinInterval(cfg.provider) )
                  => Pending(req'[i]) /\ Len(req'[i].calls) = 1
       /\ \A i \in Slots :
            (Pending(req[i]) /\ req'[i].via = "fetch")
            => /\ CacheKeyOf(req[i].q) \in DOMAIN cache'
               /\ cache'[CacheKeyOf(req[i].q)].timestamp = now
               /\ cache'[CacheKeyOf(req[i].q)].data = req'[i].data]_vars

\* C18 witness: a forecast.solar watt_hours_day entry fetched 20 minutes ago
\* was served as a cache hit.
C18_Witness ==
    \E i \in Slots :
        /\ cfg.provider = "forecast.solar"
        /\ req[i].q.metric = "watt_hours_day"
        /\ req[i].via = "hit"
        /\ EntryAge(req[i].q) = 20 * 60 * 1000

\* The other half of the scenario: at 31 minutes the same entry is a miss
\* and a fetch is in flight ...
C18_MissReached ==
    \E i \in Slots :
        /\ cfg.provider = "forecast.solar"
        /\ req[i].q.metric = "watt_hours_day"
        /\ Pending(req[i])
        /\ HasEntry(req[i].q)
        /\ EntryAge(req[i].q) = 31 * 60 * 1000

\* ... and its result has replaced the entry.
C18_OverwriteReached ==
    \E i \in Slots :
        /\ cfg.provider = "forecast.solar"
        /\ req[i].q.metric = "watt_hours_day"
        /\ req[i].via = "fetch"
        /\ now = StartTime + 31 * 60 * 1000
        /\ cache[CacheKeyOf(req[i].q)] = [data |-> req[i].data, timestamp |-> now]

\* The short TTL is reached on both sides: a forecast.solar watts entry is a
\* hit at 9 minutes and refetched at 10.
C18_ShortTtlReached ==
    \E i \in Slots :
        /\ cfg.provider = "forecast.solar"
        /\ req[i].q.metric = Undefined
        /\ HasEntry(req[i].q)
        /\ \/ req[i].via = "hit" /\ EntryAge(req[i].q) = 9 * 60 * 1000
           \/ Pending(req[i]) /\ EntryAge(req[i].q) = 10 * 60 * 1000

\* The response has been through its adapter.
Normalised == pipe.stage \in {"canonical", "frame"}

\* C19: the canonical result of a Solcast response has the metric 'watts' and
\* no other; for every forecast entry (with a period_end that is a time) its
\* watts map has a point whose timestamp, in seconds, is period_end minus 30
\* minutes and whose value is pv_estimate x 1000 rounded to the nearest
\* integer (pv_estimate is held in tenths of a watt).
C19_SolcastNormalisation ==
    (Normalised /\ pipe.provider = "solcast")
    => /\ Len(pipe.allData) = 1
       /\ pipe.allData[1].name = "watts"
       /\ \A k \in 1..Len(pipe.body.forecasts) :
             LET forecast == pipe.body.forecasts[k]
             IN  Parses(forecast.period_end)
                 => \E n \in 1..Len(pipe.allData[1].map) :
                       LET point == pipe.allData[1].map[n]
                       IN  /\ point.key.form = "digits"
                           /\ point.key.t * 1000
                                = forecast.period_end.t - 30 * 60 * 1000
                           /\ point.value.type = "number"
                           /\ 10 * point.value.n - forecast.pv_estimate <= 5
                           /\ forecast.pv_estimate - 10 * point.value.n <= 5

\* C19 witness: the entry with period_end 11:30:00Z and pv_estimate 0.5 kW
\* became the point at 11:00:00Z with 500 W, next to the entry of 0.4995 kW.
C19_Witness ==
    /\ Normalised
    /\ pipe.provider = "solcast"
    /\ Len(pipe.body.forecasts) = 2
    /\ pipe.body.forecasts[1].period_end
         = InstantKey(3 * MsPerDay + 11 * Hour + Hour \div 2)
    /\ pipe.body.forecasts[1].pv_estimate = 5000
    /\ pipe.body.forecasts[2].pv_estimate = 4995
    /\ pipe.allData[1].map[1]
         = Entry(DigitsKey(3 * 24 * 60 * 60 + 11 * 60 * 60), NumberValue(500))
    /\ Len(pipe.allData[1].map) = 2

-----------------------------------------------------------------------------
(* Properties of testDatasource *)

\* C20: testDatasource never throws or rejects: once it has ended, whatever
\* the adapter call did, it has returned a status of 'success' or 'error'
\* with a message; the status is 'success' only if the provider fetch
\* succeeded, and 'error' whenever the call failed or the Solcast credential
\* is missing.
C20_TestNeverThrows ==
    /\ test.pc # "threw"
    /\ test.pc \in {"idle", "awaiting", "returned"}
    /\ test.pc = "awaiting" <=> Pending(test.req)
    /\ test.pc = "returned"
         => /\ test.status \in {"success", "error"}
            /\ test.message # "none"
            /\ test.status = "success"
                 <=> (test.req.via = "fetch" /\ test.req.got # << >>
                      /\ test.req.got[Len(test.req.got)] # "reject")
            /\ (cfg.provider = "solcast" /\ ~cfg.secureApiKey)
                 => test.status = "error" /\ test.req.calls = << >>

\* C20 witness: the paid call and the fallback were both rejected, the last
\* with a value that has no message at all, and the test returned 'error'.
C20_Witness ==
    /\ test.pc = "returned"
    /\ test.req.got = << "reject", "reject" >>
    /\ test.status = "error"
    /\ test.message = "Unknown error"

\* The other outcomes are reached: success, and the missing Solcast key.
C20_SuccessReached ==
    /\ test.pc = "returned"
    /\ test.status = "success"
    /\ test.req.got # << >>

C20_NoKeyReached ==
    /\ test.pc = "returned"
    /\ cfg.provider = "solcast"
    /\ ~cfg.secureApiKey
    /\ test.status = "error"

-----------------------------------------------------------------------------
(* The cache and the rate gate over sequences of queries *)

\* The proxy routes the adapter of a provider calls.
RoutesOf(provider) ==
    IF provider = "solcast" THEN {"solcast"}
    ELSE {"forecast-solar-paid", "forecast-solar-free"}

\* The entry of q's key is fresh, as the specification states it.
SpecFresh(q) ==
    HasEntry(q) /\ EntryAge(q) < SpecTTL(cfg.provider, QueryMetric(q))

\* The stale fallback applies to q, as the specification states it.
SpecGated(q) ==
    /\ HasEntry(q)
    /\ cfg.provider \in DOMAIN lastApiCall
    /\ now - lastApiCall[cfg.provider] < SpecMinInterval(cfg.provider)

\* C21: a doRequest that neither hits the cache nor takes the stale fallback
\* invokes the fetch of the configured provider once (it is suspended on one
\* call to a route of that provider, or the adapter refused before any
\* call); when a fetch succeeds, the step sets lastApiCall[provider] to the
\* completion time and stores (result, completion time) under the query's
\* key, and every other cache entry and every other provider's lastApiCall
\* is as before.
C21_FetchRecordsState ==
    [][/\ \A i \in Slots :
            ( /\ Started(i)
              /\ ~LocationNotFound(req'[i].q)
              /\ ~SpecFresh(req'[i].q)
              /\ ~SpecGated(req'[i].q) )
            => /\ req'[i].via \notin {"hit", "stale"}
               /\ \/ /\ Pending(req'[i])
                     /\ Len(req'[i].calls) = 1
                     /\ req'[i].calls[1] \in RoutesOf(cfg.provider)
                  \/ /\ req'[i].via = "error"
                     /\ req'[i].calls = <<>>
       /\ \A i \in Slots :
            (Pending(req[i]) /\ req'[i].via = "fetch")
            => LET key == CacheKeyOf(req[i].q)
               IN  /\ DOMAIN lastApiCall'
                        = DOMAIN lastApiCall \cup {cfg.provider}
                   /\ lastApiCall'[cfg.provider] = now
                   /\ \A p \in DOMAIN lastApiCall \ {cfg.provider} :
                         lastApiCall'[p] = lastApiCall[p]
                   /\ DOMAIN cache' = DOMAIN cache \cup {key}
                   /\ cache'[key]
                        = [data |-> req'[i].data, timestamp |-> now]
                   /\ \A k \in DOMAIN cache \ {key} : cache'[k] = cache[k]]_vars

\* C21 witness: a fetch completed with success later than it was issued and
\* overwrote the entry another fetch of the same key had stored, while the
\* entry of another key, stored earlier, is as it was.
C21_Witness ==
    \E i, j \in Slots :
        /\ i # j
        /\ req[i].via = "fetch"
        /\ req[j].via = "fetch"
        /\ CacheKeyOf(req[i].q) = CacheKeyOf(req[j].q)
        /\ req[i].data.ver < req[j].data.ver
        /\ lastFetchAt[cfg.provider] < req[j].data.ver
        /\ cache[CacheKeyOf(req[j].q)]
             = [data |-> req[j].data, timestamp |-> now]
        /\ lastApiCall[cfg.provider] = now
        /\ \E k \in DOMAIN cache :
              /\ k # CacheKeyOf(req[j].q)
              /\ cache[k].timestamp < req[i].data.ver

\* The values doRequest passes to getCacheKey for q, field by field.
KeyFields(q) ==
    LET loc == ResolveLocation(q)
    IN  << cfg.provider, loc.latitude, loc.longitude, loc.declination,
           loc.azimuth, loc.kwp, q.solcastSiteId, QueryDataType(q),
           QueryMetric(q), q.startDate, q.endDate, q.forecastPeriod >>

\* C22: two queries have the same cache key if and only if they agree on
\* provider, latitude, longitude, tilt, azimuth, kwp, site id, data type,
\* metric, start date, end date and forecast period (so the refId does not
\* matter, and queries that differ in a listed field never share an entry).
C22_KeyDiscriminates ==
    \A q1, q2 \in panels :
        (CacheKeyOf(q1) = CacheKeyOf(q2)) <=> (KeyFields(q1) = KeyFields(q2))

\* Queries that differ in the refId only have one key, and queries
\* whose texts hold no dash outside the dates have different keys whenever
\* they differ in a listed field.
C22_WellFormedKeys ==
    \A q1, q2 \in panels :
        ( /\ Len(Pieces(q1.solcastSiteId)) = 1
          /\ Len(Pieces(q2.solcastSiteId)) = 1
          /\ Len(Pieces(QueryDataType(q1))) = 1
          /\ Len(Pieces(QueryDataType(q2))) = 1 )
        => ((CacheKeyOf(q1) = CacheKeyOf(q2))
               <=> (KeyFields(q1) = KeyFields(q2)))

\* C23: nothing is evicted.  No step removes a cache key, and an entry is
\* changed only by the step in which a fetch for its key succeeds, which
\* replaces it whole by (result, completion time); cache hits, stale
\* fallbacks, failed fetches and the passing of time leave every entry as
\* it is.
C23_NoEviction ==
    [][/\ DOMAIN cache \subseteq DOMAIN cache'
       /\ \A k \in DOMAIN cache :
             cache'[k] # cache[k]
             => \E i \in Slots :
                   /\ Pending(req[i])
                   /\ req'[i].via = "fetch"
                   /\ CacheKeyOf(req[i].q) = k
                   /\ cache'[k] = [data |-> req'[i].data, timestamp |-> now]
       /\ ( \/ now' # now
            \/ \E i \in Slots :
                  /\ req[i].pc # "done"
                  /\ req'[i].via \in {"hit", "stale", "error"} )
          => cache' = cache]_vars

\* C23 witness: the refetch of an entry that has outlived its TTL failed;
\* the expired entry and the entry of another key are still in the cache.
C23_Witness ==
    \E i \in Slots :
        /\ req[i].via = "error"
        /\ req[i].got # <<>>
        /\ HasEntry(req[i].q)
        /\ EntryAge(req[i].q) >= SpecTTL(cfg.provider, QueryMetric(req[i].q))
        /\ Cardinality(DOMAIN cache) >= 2
        /\ NoFetchInBatch

-----------------------------------------------------------------------------
(* Properties of the pipeline, continued *)

\* C24: a key that is a decimal number (the keys fetchSolcastData stores) is
\* taken as seconds since the epoch: parseTimestamp returns seconds x 1000,
\* and the point of such an entry is in the frame at that instant (under the
\* period 'all', which keeps every point), not at 0.
C24_NumericKeysAsSeconds ==
    Framed
    => \A k \in 1..Len(MetricEntries) :
          LET entry == MetricEntries[k]
          IN  entry.key.form = "digits"
              => /\ parseTimestamp(entry.key, pipe.zone)
                      = Num(entry.key.t * 1000)
                 /\ PipePeriod = "all"
                    => \E n \in 1..Len(pipe.frame) :
                          /\ pipe.frame[n].Time = entry.key.t * 1000
                          /\ pipe.frame[n].Value = entry.value

-----------------------------------------------------------------------------
(* Properties of the cache and of the batch, continued *)

\* The forecast.solar forecast request of target i has ended on a response
\* without a result object.
MalformedForecast(i) ==
    /\ cfg.provider = "forecast.solar"
    /\ req[i].pc = "done"
    /\ QueryDataType(req[i].q) = "forecast"
    /\ req[i].got # <<>>
    /\ req[i].got[Len(req[i].got)] = "noresult"

\* C25: a forecast.solar forecast response without a result object ends that
\* target with an empty frame (the target is fulfilled, with no series), and
\* the batch is not rejected by it: query() resolves with the frames of the
\* targets that were fulfilled.
C25_MalformedResponse ==
    \A i \in Slots :
        MalformedForecast(i)
        => /\ req[i].via # "error"
           /\ req[i].data = NoData
           /\ batch.by # i
           /\ Settled /\ (\A j \in Slots : j # i => req[j].via # "error")
              => /\ batch.status = "resolved"
                 /\ Fulfilled \subseteq batch.frames

\* The provider a cache entry was fetched for: the first part of its key.
ProviderOfKey(k) == k[1]

\* C26: whenever the cache holds an entry fetched for provider p,
\* lastApiCall[p] is defined and not earlier than the entry's timestamp (the
\* two clock reads of one store have one value, so they are equal at the
\* store); lastApiCall[p] and the timestamp of every key's entry never
\* decrease.  So the default of a provider never called is used only while
\* the cache has no entry of that provider.
C26_GateCacheTimestamps ==
    /\ [](\A k \in DOMAIN cache :
             /\ ProviderOfKey(k) \in DOMAIN lastApiCall
             /\ lastApiCall[ProviderOfKey(k)] >= cache[k].timestamp)
    /\ [][/\ \A p \in DOMAIN lastApiCall :
               /\ p \in DOMAIN lastApiCall'
               /\ lastApiCall'[p] >= lastApiCall[p]
          /\ \A k \in DOMAIN cache :
               /\ k \in DOMAIN cache'
               /\ cache'[k].timestamp >= cache[k].timestamp
          /\ \A i \in Slots :
               (Pending(req[i]) /\ req'[i].via = "fetch")
               => lastApiCall'[cfg.provider]
                    = cache'[CacheKeyOf(req[i].q)].timestamp]_vars

\* C26 witness: the cache holds the entries of two fetches that completed
\* at different times, and lastApiCall is the time of the later one, which
\* a target of the batch just resolved has stored.
C26_Witness ==
    \E k1, k2 \in DOMAIN cache :
        /\ cache[k1].timestamp = StartTime
        /\ cache[k2].timestamp > StartTime + TickMs
        /\ lastApiCall[ProviderOfKey(k2)] = cache[k2].timestamp
        /\ \E i \in Slots :
              /\ req[i].via = "fetch"
              /\ CacheKeyOf(req[i].q) = k2
              /\ req[i].data.ver = cache[k2].timestamp
        /\ batch.status = "resolved"

\* C27: the effective TTL is at least the minimum call interval for every
\* provider and metric, and on a datasource whose queries all have one cache
\* key (one after another or in one batch, whatever fetches fail) no request
\* takes the stale fallback: a request answered from the cache is answered
\* with an entry younger than the effective TTL.
C27_SingleKeyNeverStale ==
    [][/\ \A q \in panels :
            SpecTTL(cfg.provider, QueryMetric(q))
              >= SpecMinInterval(cfg.provider)
       /\ \A q1, q2 \in panels : CacheKeyOf(q1) = CacheKeyOf(q2)
       /\ \A i \in Slots :
            (Started(i) /\ req'[i].calls = <<>> /\ req'[i].via # "error")
            => /\ req'[i].via = "hit"
               /\ EntryAge(req'[i].q)
                    < SpecTTL(cfg.provider, QueryMetric(req'[i].q))
               /\ req'[i].data = cache[CacheKeyOf(req'[i].q)].data]_vars

\* C27 witness: the key's entry has outlived its TTL; of two targets that
\* found it so, neither took it: one's fetch has failed and the other's is
\* still awaited.
C27_Witness ==
    \E i, j \in Slots :
        /\ req[j].via = "error"
        /\ req[j].got # <<>>
        /\ Pending(req[i])
        /\ Cardinality(DOMAIN cache) = 1
        /\ HasEntry(req[i].q)
        /\ EntryAge(req[i].q) >= SpecTTL(cfg.provider, QueryMetric(req[i].q))
        /\ lastFetchAt[cfg.provider] = now

\* The case without expiry is reached too: a request is answered from the
\* cache with an entry that is not new.
C27_HitReached ==
    \E i \in Slots :
        /\ req[i].via = "hit"
        /\ EntryAge(req[i].q) > 0
        /\ Cardinality(DOMAIN cache) = 1

\* C28: staleness is bounded.  Whatever the sequence of queries and keys,
\* a canonical result that doRequest returns from the cache, by a fresh hit
\* or by the stale fallback, is younger than the effective TTL plus the
\* provider's minimum call interval.  (No time passes between the answer
\* and the hand-over of the batch.)
C28_BoundedStaleness ==
    \A i \in Slots :
        req[i].via \in {"hit", "stale"}
        => now - cache[CacheKeyOf(req[i].q)].timestamp
             < SpecTTL(cfg.provider, QueryMetric(req[i].q))
                 + SpecMinInterval(cfg.provider)

-----------------------------------------------------------------------------
(* Properties of testDatasource among queries *)

\* C29: testDatasource goes past the cache and the rate gate.  Every step of
\* it leaves the cache and lastApiCall (and the requests of the dashboard) as
\* they are; when started it calls the adapter, which issues its network
\* call or refuses, whatever the cache holds; and a doRequest that finds no
\* fresh entry and whose gate, by lastApiCall, is open goes on to fetch,
\* whatever calls the test has made.
C29_TestBypassesCacheAndGate ==
    [][/\ test' # test
          => /\ cache' = cache
             /\ lastApiCall' = lastApiCall
             /\ req' = req
       /\ (test.pc = "idle" /\ test'.pc # "idle")
          => \/ /\ test'.pc = "awaiting"
                /\ Len(test'.req.calls) = 1
                /\ test'.req.calls[1] \in RoutesOf(getProvider)
             \/ /\ test'.pc = "returned"
                /\ test'.status = "error"
                /\ test'.req.calls = <<>>
       /\ \A i \in Slots :
            ( /\ Started(i)
              /\ ~SpecFresh(req'[i].q)
              /\ ~SpecGated(req'[i].q) )
            => req'[i].via \notin {"hit", "stale"}]_vars

\* C29 witness: the test has issued its call although the cache holds a
\* fresh entry for the parameters it asks for and the provider was called
\* less than the minimum interval ago.
C29_Witness ==
    /\ test.pc = "awaiting"
    /\ cfg.provider = "forecast.solar"
    /\ ResolveLocation(TestQuery) = ResolveLocation(BaseQuery)
    /\ HasEntry(BaseQuery)
    /\ EntryAge(BaseQuery) < SpecTTL(cfg.provider, "watts")
    /\ now - lastApiCall[cfg.provider] < SpecMinInterval(cfg.provider)

\* The other half is reached too: after a test that succeeded and that the
\* rate gate has not counted, a request with an expired entry fetches.
C29_FetchAfterTestReached ==
    /\ test.status = "success"
    /\ \E i \in Slots :
          /\ Pending(req[i])
          /\ HasEntry(req[i].q)
          /\ now - lastApiCall[cfg.provider] >= SpecMinInterval(cfg.provider)

\* The effective parameters of q: every field after defaulting, as the
\* specification's query resolver states it.
EffectiveParameters(q) ==
    << cfg.provider,
       SpecResolved(q.latitude, 5113), SpecResolved(q.longitude, 1042),
       SpecResolved(q.declination, 30), SpecResolved(q.azimuth, 180),
       SpecResolved(q.kwp, 50), q.solcastSiteId,
       IF q.dataType = Undefined THEN "forecast" ELSE q.dataType,
       IF q.metric = Undefined THEN "watts" ELSE q.metric,
       q.startDate, q.endDate,
       IF q.forecastPeriod = Undefined THEN "all" ELSE q.forecastPeriod >>

\* C30: queries with the same effective parameters (a forecast period left
\* out or given as 'all', a metric left out or given as 'watts') have one
\* cache key: a request that runs while a query with the same effective
\* parameters has an entry younger than the effective TTL is served that
\* entry from the cache, without a network call.
C30_EquivalentQueriesShare ==
    [][\A i \in Slots : \A q2 \in panels :
         ( /\ Started(i)
           /\ EffectiveParameters(q2) = EffectiveParameters(req'[i].q)
           /\ HasEntry(q2)
           /\ EntryAge(q2) < SpecTTL(cfg.provider, QueryMetric(q2)) )
         => /\ CacheKeyOf(req'[i].q) = CacheKeyOf(q2)
            /\ req'[i].via = "hit"
            /\ NoNetworkCall(req'[i])
            /\ req'[i].data = cache[CacheKeyOf(q2)].data]_vars

\* The part of C30 that holds: a metric left out and the metric 'watts'
\* share their entry.
C30_MetricDefaultShares ==
    [][\A i \in Slots : \A q2 \in panels :
         ( /\ Started(i)
           /\ EffectiveParameters(q2) = EffectiveParameters(req'[i].q)
           /\ q2.forecastPeriod = req'[i].q.forecastPeriod
           /\ HasEntry(q2)
           /\ EntryAge(q2) < SpecTTL(cfg.provider, QueryMetric(q2)) )
         => /\ CacheKeyOf(req'[i].q) = CacheKeyOf(q2)
            /\ req'[i].via = "hit"
            /\ NoNetworkCall(req'[i])]_vars

\* A request with the metric given as 'watts' was served the entry that a
\* query without metric has stored, or the other way round.
C30_MetricDefaultReached ==
    \E i \in Slots : \E q2 \in panels :
        /\ req[i].via = "hit"
        /\ q2.metric # req[i].q.metric
        /\ EffectiveParameters(q2) = EffectiveParameters(req[i].q)
        /\ Cardinality(DOMAIN cache) = 1

====
